---- MODULE Spec2Model ----
(***************************************************************************)
(* Engagement counters of the blog API (views, likes, comments).           *)
(*                                                                         *)
(* The document store is the shared state; every HTTP request is a         *)
(* goroutine whose store calls are the atomic steps.  A request occupies   *)
(* one slot of Reqs from its first store call to its response.             *)
(***************************************************************************)
EXTENDS Integers, Sequences, FiniteSets, TLC

(***************************************************************************)
(* Bounds of the model.                                                    *)
(***************************************************************************)
\* number of requests that can be in flight at the same time
MaxConc == 2
\* number of requests started in one run
MaxRequests == 3
\* number of store operations that fail (error or timeout) in one run
MaxFaults == 1
\* number of comment ids handed out in one run
MaxComments == 2
\* largest width and height of a grid whose pixels are followed one by one
MaxDim == 3
\* number of transforms applied to one image
MaxSteps == 2
\* goroutines serving requests through MetricsMiddleware
MaxGoroutines == 3

(***************************************************************************)
(* Program constants.                                                      *)
(***************************************************************************)
\* CreateComment: shortest and longest accepted content (bytes)
MinContentLen == 1
MaxContentLen == 2000
\* UploadAvatar: side of the square thumbnail
AvatarSize == 256
\* UploadPostImage: largest width of a stored post image
CoverWidth == 800
\* both uploads: largest request body, 5 MiB
BodyLimit == 5242880
\* jpeg.Encode: largest width and height of an encoded image
MaxJpegDim == 65535

(***************************************************************************)
(* Identities, posts, slugs.                                               *)
(***************************************************************************)
\* primitive.NilObjectID: what GetUserID returns when no identity is present
Nil == "nil"
Users == {"u1", "u2", "u3"}
Identities == Users \cup {Nil}
PostIds == {"p1", "p2", "p3", "p4"}
\* "" is the empty path value, "none" a slug no post carries
Slugs == {"s1", "s2", "s3", "none", ""}
Reqs == 1..MaxConc
CommentIds == 1..MaxComments
\* 0 stands for a path value that is not a valid hex ObjectID
CommentIdInputs == 0..MaxComments
\* contents of a comment: runes characters, each encoded in width bytes
RuneCounts == {0, MinContentLen, 1001, MaxContentLen, MaxContentLen + 1}
RuneWidths == {1, 2}

VARIABLES
    boot,           \* "starting" before EnsureIndexes ran, "serving" after
    viewsUnique,    \* the unique index on post_views {post_id, user_id} exists
    likesUnique,    \* the unique index on post_likes {post_id, user_id} exists
    posts,          \* posts collection: post id -> document
    post_views,     \* post_views collection: number of documents per (post, user)
    viewed_at,      \* post_views collection: viewed_at of the documents of (post, user)
    post_likes,     \* post_likes collection: number of documents per (post, user)
    post_comments,  \* post_comments collection: comment id -> document or NoDoc
    nextComment,    \* next fresh comment id (primitive.NewObjectID)
    pc,             \* per request slot: position in its handler
    req,            \* per request slot: inputs and local variables of the handler
    resp,           \* per request slot: the response written
    started,        \* history: number of requests started
    faults,         \* history: number of store operations that failed
    alone,          \* history: no two requests were ever in flight together
    rvDone,         \* history: RecordView requests answered 200, per (post, identity)
    tlStarted,      \* history: ToggleLike requests started, per (post, user)
    tlLog,          \* history: outcomes of finished ToggleLike requests, per (post, user)
    img,            \* the image.Image a transform is applied to
    source,         \* history: the image as it was decoded
    trail,          \* history: the transforms applied to img, in order
    images,         \* images collection: the documents stored
    profiles,       \* profiles collection: user id -> document
    verdicts,       \* history: type-validation outcomes, per handler and per input
    metrics,        \* the process-wide Metrics value: its mutex and its counters
    goroutines,     \* per goroutine: position in MetricsMiddleware and its locals
    tally,          \* history: increments and passes completed, contention seen
    users,          \* users collection: the documents stored
    registered,     \* profiles collection: the documents Register inserted
    minted          \* the post ids primitive.NewObjectID has returned

storeVars == <<posts, post_views, viewed_at, post_likes, post_comments, nextComment>>
indexVars == <<boot, viewsUnique, likesUnique>>
histVars == <<started, alone, rvDone, tlStarted, tlLog>>
pipeVars == <<img, source, trail>>
uploadVars == <<images, profiles, verdicts>>
imageVars == <<pipeVars, uploadVars>>
metricVars == <<metrics, goroutines, tally>>
accountVars == <<users, registered>>
idVars == <<minted>>
processVars == <<indexVars, metricVars, accountVars, idVars>>
vars == <<boot, viewsUnique, likesUnique, posts, post_views, viewed_at, post_likes,
          post_comments, nextComment, pc, req, resp, started, faults, alone,
          rvDone, tlStarted, tlLog, img, source, trail, images, profiles, verdicts,
          metrics, goroutines, tally, users, registered, minted>>

NoDoc == [present |-> FALSE, post_id |-> "none", user_id |-> Nil]

\* locals of a handler; the fields a handler does not use keep these values
NoReq == [kind |-> "none", uid |-> Nil, post |-> "none", author |-> Nil,
          cid |-> 0, deleted |-> 0, cuser |-> Nil, upserted |-> 0,
          raced |-> FALSE, inserted |-> FALSE, ref |-> "none",
          title |-> <<>>, status |-> "nil", base |-> "none",
          candidate |-> "none", counter |-> 0, slug |-> "none", content |-> "none",
          data |-> [w |-> 0, h |-> 0, of |-> <<"none", 0, 0>>], failed |-> "none",
          email |-> "none", user |-> "none", target |-> "none", role |-> "",
          tmp |-> 0]

\* a response not written yet; liked is "none" when the body carries no liked field
NoResp == [code |-> 0, liked |-> "none", view_count |-> 0,
           unique_view_count |-> 0, like_count |-> 0, comment_count |-> 0]

Reply(code) == [NoResp EXCEPT !.code = code]

\* models.BlogPost as CreatePost inserts it: the four counters start at zero
NewPost(author, slug, status) ==
    [author_id |-> author, slug |-> slug, status |-> status,
     view_count |-> 0, unique_view_count |-> 0, like_count |-> 0,
     comment_count |-> 0]

\* the place of a post that DeletePost removed: no slug resolves to it
NoPost == NewPost(Nil, "none", "none")

\* the ids of the posts of a store: ids primitive.NewObjectID gave out
Minted(store) == {p \in PostIds : store[p] # NoPost}

\* Profile.Role of the users at startup: an author, a user and an admin
SeedRole(u) ==
    CASE u = "u1" -> "author"
      [] u = "u2" -> "user"
      [] u = "u3" -> "admin"
      [] OTHER -> ""

\* Profile.Role as stored: the role of the profile of user u, "" when the
\* profile carries none
ProfileRole(u) == IF u \in Users THEN profiles[u].role ELSE ""

(***************************************************************************)
(* Store primitives.                                                       *)
(***************************************************************************)
\* an increment applied twice
IncField_Twice(p, field, by) ==
    [posts EXCEPT ![p] = [@ EXCEPT ![field] = @ + by + by]]

\* Posts().UpdateOne(_id, $inc {field: by}): single-document atomic increment
IncField(p, field, by) ==
    IF posts[p] = NoPost
      THEN posts
      ELSE [posts EXCEPT ![p] = [@ EXCEPT ![field] = @ + by]]

\* time.Now(): the requests started so far stand for the time elapsed
Now == started

\* the posts FindOne({slug, status: "published"}) can return
PublishedBySlug(slug) ==
    {p \in PostIds : posts[p].slug = slug /\ posts[p].status = "published"}

\* outcomes a store call can have: TRUE it is applied, FALSE it returns an error
StoreOutcomes == IF faults < MaxFaults THEN {TRUE, FALSE} ELSE {TRUE}

Fault(ok) == faults' = IF ok THEN faults ELSE faults + 1

InFlight(r) == pc[r] \notin {"idle", "done"}

\* requests are served once main reached ListenAndServe, in the lowest free slot
CanStart(r) ==
    /\ boot = "serving"
    /\ ~InFlight(r)
    /\ \A q \in Reqs : q < r => InFlight(q)
    /\ started < MaxRequests

Begin(r) ==
    /\ started' = started + 1
    /\ alone' = (alone /\ \A q \in Reqs : ~InFlight(q))

Finish(r, response) ==
    /\ pc' = [pc EXCEPT ![r] = "done"]
    /\ resp' = [resp EXCEPT ![r] = response]

Goto(r, label) ==
    /\ pc' = [pc EXCEPT ![r] = label]
    /\ UNCHANGED resp

(***************************************************************************)
(* Pixel grids and the geometric transforms of the upload pipeline.        *)
(*                                                                         *)
(* An image is its bounds (w, h; decoded images and image.NewRGBA start at *)
(* the origin) and, for the grids whose pixels are followed one by one,    *)
(* px: the RGBA value At(x, y) returns for every coordinate.               *)
(***************************************************************************)
\* color.RGBA{}: the value image.NewRGBA fills a new grid with
Transparent == 0

Coords(w, h) == (0..(w - 1)) \X (0..(h - 1))

\* image.NewRGBA(image.Rect(0, 0, w, h))
NewRGBA(w, h) == [w |-> w, h |-> h, px |-> [c \in Coords(w, h) |-> Transparent]]

\* (*image.RGBA).Set: a point outside the rectangle is ignored
Set(dst, x, y, c) ==
    IF <<x, y>> \in Coords(dst.w, dst.h)
      THEN [dst EXCEPT !.px[<<x, y>>] = c]
      ELSE dst

\* where each transform writes the source pixel (x, y) of a w x h image
Target(kind, w, h, x, y) ==
    CASE kind = "flipHorizontal" -> <<w - 1 - x, y>>
      [] kind = "flipVertical" -> <<x, h - 1 - y>>
      [] kind = "rotate180" -> <<w - 1 - x, h - 1 - y>>
      [] kind = "rotate90CW" -> <<h - 1 - y, x>>
      [] kind = "rotate90CCW" -> <<y, w - 1 - x>>

\* for y := 0; y < h; y++ { for x := 0; x < w; x++ { dst.Set(..., img.At(x, y)) } }
\* from the k-th pixel on, in the order of the two loops
RECURSIVE Draw(_, _, _, _)
Draw(kind, image, dst, k) ==
    IF k >= image.w * image.h
      THEN dst
      ELSE LET x == k % image.w
               y == k \div image.w
               t == Target(kind, image.w, image.h, x, y)
           IN Draw(kind, image, Set(dst, t[1], t[2], image.px[<<x, y>>]), k + 1)

flipHorizontal(image) == Draw("flipHorizontal", image, NewRGBA(image.w, image.h), 0)

\* a vertical flip that mirrors the columns instead of the rows
flipVertical_Columns(image) == flipHorizontal(image)

flipVertical(image) == Draw("flipVertical", image, NewRGBA(image.w, image.h), 0)

rotate180(image) == Draw("rotate180", image, NewRGBA(image.w, image.h), 0)

rotate90CW(image, newW, newH) == Draw("rotate90CW", image, NewRGBA(newW, newH), 0)

\* a counter-clockwise rotation that turns clockwise
rotate90CCW_Clockwise(image, newW, newH) == rotate90CW(image, newW, newH)

rotate90CCW(image, newW, newH) == Draw("rotate90CCW", image, NewRGBA(newW, newH), 0)

\* what exif.Decode, x.Get(exif.Orientation) and orientTag.Int(0) find in the
\* bytes: no EXIF block, no orientation tag, a tag that is no integer, or a
\* tag with an integer value
ExifStates == {"absent", "untagged", "mistyped", "tagged"}

\* values of the orientation tag: 1..8 are defined, 0 and 9 are not
OrientValues == 0..9

Readers ==
    [exif : {"tagged"}, orient : OrientValues]
      \cup [exif : ExifStates \ {"tagged"}, orient : {0}]

applyExifOrientation(r, image) ==
    IF r.exif # "tagged"
      THEN image
      ELSE LET w == image.w
               h == image.h
           IN CASE r.orient = 1 -> image
                [] r.orient = 2 -> flipHorizontal(image)
                [] r.orient = 3 -> rotate180(image)
                [] r.orient = 4 -> flipVertical(image)
                [] r.orient = 5 -> rotate90CCW(flipHorizontal(image), h, w)
                [] r.orient = 6 -> rotate90CW(image, h, w)
                [] r.orient = 7 -> rotate90CW(flipHorizontal(image), h, w)
                [] r.orient = 8 -> rotate90CCW(image, h, w)
                [] OTHER -> image

\* image.Rect(x0, y0, x1, y1)
Rect(x0, y0, x1, y1) == [x0 |-> x0, y0 |-> y0, x1 |-> x1, y1 |-> y1]

\* a crop that starts at the edge of the longer dimension
CropRect_Edge(srcWidth, srcHeight) ==
    IF srcWidth > srcHeight
      THEN Rect(0, 0, srcHeight, srcHeight)
      ELSE Rect(0, 0, srcWidth, srcWidth)

\* resizeImage: the square the scaler reads
CropRect(srcWidth, srcHeight) ==
    IF srcWidth > srcHeight
      THEN LET offset == (srcWidth - srcHeight) \div 2
           IN Rect(offset, 0, offset + srcHeight, srcHeight)
      ELSE LET offset == (srcHeight - srcWidth) \div 2
           IN Rect(0, offset, srcWidth, offset + srcWidth)

\* draw.CatmullRom.Scale(dst, dst.Bounds(), src, sr, draw.Over, nil): the
\* grid of dst's size, every pixel of it interpolated from the rectangle sr
\* of src; the result is kept as its bounds and the rectangle it was read from
Scale(w, h, sr) == [w |-> w, h |-> h, sr |-> sr]

resizeImage(image, width, height) ==
    Scale(width, height, CropRect(image.w, image.h))

\* int(float64(srcH) * float64(maxWidth) / float64(srcW)): the product is
\* exact in float64, the quotient of two such integers is never rounded
\* across an integer, and int() drops the fraction
ScaledHeight(srcH, maxWidth, srcW) == (srcH * maxWidth) \div srcW

resizeCover(image, maxWidth) ==
    IF image.w <= maxWidth
      THEN image
      ELSE Scale(maxWidth, ScaledHeight(image.h, maxWidth, image.w),
                 Rect(0, 0, image.w, image.h))

(***************************************************************************)
(* Images the transforms are applied to.                                   *)
(***************************************************************************)
\* a grid whose pixels are pairwise different and none is Transparent
LabelledGrid(w, h) ==
    [w |-> w, h |-> h, px |-> [c \in Coords(w, h) |-> 1 + c[2] * w + c[1]]]

\* the grids of two colours
TwoToneGrids(w, h) == [w : {w}, h : {h}, px : [Coords(w, h) -> {Transparent, 1}]]

Grids ==
    UNION {{LabelledGrid(w, h)} \cup TwoToneGrids(w, h) : w \in 1..MaxDim, h \in 1..MaxDim}

\* widths and heights of the photographs that are followed by their bounds only
PhotoDims == {1, 2, 255, 256, 257, 300, 500, 800, 801, 1200, 1600}

Photos == [w : PhotoDims, h : PhotoDims]

\* target sizes: a single pixel and the avatar thumbnail
Targets == {1, AvatarSize}

\* width limits: a narrow one and the one of post images
MaxWidths == {2, CoverWidth}

\* no image: the pipeline is not running
NoImage == [w |-> 0, h |-> 0]

\* one transform applied to img: its name, the EXIF data read (orientation
\* correction) and the size asked for (the two resizers)
Applied(op, r, size) == [op |-> op, exif |-> r.exif, orient |-> r.orient, size |-> size]

NoReader == [exif |-> "absent", orient |-> 0]

(***************************************************************************)
(* Uploaded files.                                                         *)
(***************************************************************************)
\* the bytes of an uploaded file: the signature they start with, whether
\* the decoder of that format reads them to the end, and the bounds and the
\* EXIF data of the picture they hold
Content(sig, sound, w, h, r) ==
    [sig |-> sig, sound |-> sound, w |-> w, h |-> h,
     exif |-> r.exif, orient |-> r.orient]

Contents ==
    {Content("jpeg", TRUE, 2, 3, [exif |-> "tagged", orient |-> 6]),
     Content("png", TRUE, 1, MaxJpegDim + 1, NoReader),
     Content("png", TRUE, 300, 500, NoReader),
     Content("webp", TRUE, 300, 500, NoReader),
     Content("gif", TRUE, 300, 500, NoReader),
     Content("jpeg", FALSE, 0, 0, NoReader)}

\* http.DetectContentType: the MIME type of the signature the bytes start with
DetectContentType(data) ==
    CASE data.sig = "jpeg" -> "image/jpeg"
      [] data.sig = "png" -> "image/png"
      [] data.sig = "webp" -> "image/webp"
      [] data.sig = "gif" -> "image/gif"
      [] OTHER -> "application/octet-stream"

\* the formats image.Decode knows: image/jpeg and image/png are imported
RegisteredFormats == {"jpeg", "png"}

\* image.Decode returns no error
Decodable(data) == data.sig \in RegisteredFormats /\ data.sound

\* the image image.Decode returns
Decode(data) == LabelledGrid(data.w, data.h)

\* the EXIF data exif.Decode finds in the bytes
ExifOf(data) == [exif |-> data.exif, orient |-> data.orient]

\* jpeg.Encode returns no error: neither side exceeds what the format holds
Encodable(image) == image.w <= MaxJpegDim /\ image.h <= MaxJpegDim

\* the Content-Type header of the file part
DeclaredTypes == {"image/jpeg", "image/png", "text/plain"}

\* the form field the file part is sent in
FieldNames == {"avatar", "image"}

\* request bodies: their size in bytes, whether they parse as multipart
\* form data, and the file part; a body that is too large or malformed is
\* sent with one file part only
Forms ==
    [size : {BodyLimit}, multipart : {TRUE},
     field : FieldNames, declared : DeclaredTypes, data : Contents]
      \cup [size : {BodyLimit, BodyLimit + 1}, multipart : BOOLEAN,
            field : {"avatar"}, declared : {"image/png"},
            data : {Content("png", TRUE, 300, 500, NoReader)}]

\* http.MaxBytesReader and ParseMultipartForm return no error
Parsed(form) == form.size <= BodyLimit /\ form.multipart

\* the JPEG bytes jpeg.Encode writes for an image made from the bytes data
Jpeg(image, data) == [w |-> image.w, h |-> image.h, of |-> <<data.sig, data.w, data.h>>]

\* a profile without avatar, and the place of a profile that does not exist
NoAvatar == [w |-> 0, h |-> 0, of |-> <<"none", 0, 0>>]
NewProfile == [present |-> TRUE, avatar |-> NoAvatar, role |-> ""]

\* the profiles at startup: one for every user, with its role
SeedProfile(u) == [NewProfile EXCEPT !.role = SeedRole(u)]

\* the handlers that validate the type of an upload
Uploaders == {"UploadAvatar", "UploadPostImage"}

\* the uploads' collections at startup: no image; u2 is an identity whose
\* profile does not exist
InitUploads ==
    /\ images = {}
    /\ profiles = [u \in Users |-> SeedProfile(u)]
    /\ verdicts = [h \in Uploaders |-> {}]

(***************************************************************************)
(* Process-wide metrics: the Inc* functions and MetricsMiddleware.          *)
(*                                                                         *)
(* The passage of a request through MetricsMiddleware (activeRequests++,   *)
(* next.ServeHTTP, activeRequests--, requestsTotal[key]++) is followed on  *)
(* the goroutines below, with the handler reduced to the status it writes  *)
(* and the Inc* function it calls. The request slots follow a handler from *)
(* its first statement to its response; the Inc* calls of CreatePost and   *)
(* Register are steps of those slots on the same metrics and mutex.        *)
(***************************************************************************)
Goroutines == 1..MaxGoroutines

\* counters raised by the Inc* functions
CounterNames == {"usersRegistered", "postsCreated"}

\* request paths: the metrics endpoint and any other
Paths == {"/metrics", "/api"}

\* keys of requestsTotal: method, normalised path and status, told apart by
\* the status
Keys == {201, 500}

\* metrics.mu: the goroutine holding the write lock (0 is none) and the
\* number of read locks held
Unlocked == [writer |-> 0, readers |-> 0]

\* var metrics = &Metrics{...}
NewMetrics ==
    [mu |-> Unlocked, activeRequests |-> 0,
     requestsTotal |-> [k \in Keys |-> 0],
     usersRegistered |-> 0, postsCreated |-> 0]

\* a goroutine outside MetricsMiddleware
Parked(at) ==
    [pc |-> at, phase |-> "", counter |-> "", status |-> 0, tmp |-> 0]

\* the address a seeded user registered with
EmailOf(u) == u \o "@x"

\* the users collection holds the users of the seeded store
InitAccounts ==
    /\ users = {[id |-> u, email |-> EmailOf(u)] : u \in Users}
    /\ registered = {}

InitMetrics ==
    /\ InitAccounts
    /\ metrics = NewMetrics
    /\ goroutines = [g \in Goroutines |-> Parked("idle")]
    /\ tally = [calls |-> [c \in CounterNames |-> 0],
                served |-> [k \in Keys |-> 0],
                waited |-> FALSE]

\* everything but the metrics
requestVars == <<storeVars, indexVars, imageVars, histVars, accountVars, idVars,
                 pc, req, resp, faults>>

\* a lock that excludes nobody
CanLock_Always(mu) == TRUE

\* mu.Lock() returns once no goroutine holds the mutex, for writing or reading
CanLock(mu) == mu.writer = 0 /\ mu.readers = 0

\* mu.RLock() returns once no goroutine holds the mutex for writing
CanRLock(mu) == mu.writer = 0

\* the value a goroutine's x++ or x-- reads
Load(m, local) ==
    CASE local.phase \in {"enter", "leave"} -> m.activeRequests
      [] local.phase = "inc" -> m[local.counter]
      [] OTHER -> m.requestsTotal[local.status]

\* the metrics after a goroutine's x++ or x-- wrote value
Store(m, local, value) ==
    CASE local.phase \in {"enter", "leave"} -> [m EXCEPT !.activeRequests = value]
      [] local.phase = "inc" -> [m EXCEPT ![local.counter] = value]
      [] OTHER -> [m EXCEPT !.requestsTotal[local.status] = value]

\* x++ adds one, x-- takes one
Delta(phase) == IF phase = "leave" THEN -1 ELSE 1

\* a request enters MetricsMiddleware; the metrics endpoint is passed on
\* unmeasured
MetricsMiddleware_Enter(g) ==
    /\ goroutines[g].pc = "idle"
    /\ \E path \in Paths :
         goroutines' = [goroutines EXCEPT ![g] =
                          IF path = "/metrics"
                            THEN Parked("rlock")
                            ELSE [Parked("lock") EXCEPT !.phase = "enter"]]
    /\ UNCHANGED <<metrics, tally, requestVars>>

\* metrics.mu.Lock()
Lock(g) ==
    /\ goroutines[g].pc = "lock"
    /\ CanLock(metrics.mu)
    /\ metrics' = [metrics EXCEPT !.mu.writer = g]
    /\ goroutines' = [goroutines EXCEPT ![g].pc = "load"]
    /\ tally' = [tally EXCEPT !.waited =
                   @ \/ \E h \in Goroutines \ {g} : goroutines[h].pc = "lock"]
    /\ UNCHANGED requestVars

\* the read of x++ or x--
Increment_Load(g) ==
    /\ goroutines[g].pc = "load"
    /\ goroutines' = [goroutines EXCEPT ![g].pc = "store",
                                        ![g].tmp = Load(metrics, goroutines[g])]
    /\ UNCHANGED <<metrics, tally, requestVars>>

\* the write of x++ or x--; after activeRequests-- comes requestsTotal[key]++
\* under the same lock
Increment_Store(g) ==
    LET local == goroutines[g]
    IN /\ local.pc = "store"
       /\ metrics' = Store(metrics, local, local.tmp + Delta(local.phase))
       /\ goroutines' = [goroutines EXCEPT ![g] =
                           IF local.phase = "leave"
                             THEN [local EXCEPT !.pc = "load", !.phase = "total",
                                                !.tmp = 0]
                             ELSE [local EXCEPT !.pc = "unlock", !.tmp = 0]]
       /\ tally' = CASE local.phase = "inc" ->
                          [tally EXCEPT !.calls[local.counter] = @ + 1]
                     [] local.phase = "total" ->
                          [tally EXCEPT !.served[local.status] = @ + 1]
                     [] OTHER -> tally
       /\ UNCHANGED requestVars

\* metrics.mu.Unlock()
Unlock(g) ==
    LET local == goroutines[g]
    IN /\ local.pc = "unlock"
       /\ metrics' = [metrics EXCEPT !.mu.writer = 0]
       /\ goroutines' = [goroutines EXCEPT ![g] =
                           CASE local.phase = "enter" ->
                                  [local EXCEPT !.pc = "serve", !.phase = ""]
                             [] local.phase = "inc" ->
                                  [local EXCEPT !.pc = "lock", !.phase = "leave",
                                                !.counter = ""]
                             [] OTHER -> Parked("done")]
       /\ UNCHANGED <<tally, requestVars>>

\* next.ServeHTTP(rw, r): the handler writes a status and calls at most one
\* Inc* function
ServeHTTP(g) ==
    /\ goroutines[g].pc = "serve"
    /\ \E status \in Keys, call \in CounterNames \cup {""} :
         goroutines' = [goroutines EXCEPT ![g] =
                          IF call = ""
                            THEN [@ EXCEPT !.pc = "lock", !.phase = "leave",
                                           !.status = status]
                            ELSE [@ EXCEPT !.pc = "lock", !.phase = "inc",
                                           !.status = status, !.counter = call]]
    /\ UNCHANGED <<metrics, tally, requestVars>>

\* PrometheusHandler: metrics.mu.RLock()
PrometheusHandler_RLock(g) ==
    /\ goroutines[g].pc = "rlock"
    /\ CanRLock(metrics.mu)
    /\ metrics' = [metrics EXCEPT !.mu.readers = @ + 1]
    /\ goroutines' = [goroutines EXCEPT ![g].pc = "runlock"]
    /\ UNCHANGED <<tally, requestVars>>

\* PrometheusHandler: the deferred metrics.mu.RUnlock()
PrometheusHandler_RUnlock(g) ==
    /\ goroutines[g].pc = "runlock"
    /\ metrics' = [metrics EXCEPT !.mu.readers = @ - 1]
    /\ goroutines' = [goroutines EXCEPT ![g] = Parked("done")]
    /\ UNCHANGED <<tally, requestVars>>

MetricsMiddleware(g) ==
    \/ MetricsMiddleware_Enter(g)
    \/ Lock(g)
    \/ Increment_Load(g)
    \/ Increment_Store(g)
    \/ Unlock(g)
    \/ ServeHTTP(g)
    \/ PrometheusHandler_RLock(g)
    \/ PrometheusHandler_RUnlock(g)

NextMetrics == \E g \in Goroutines : MetricsMiddleware(g)

(***************************************************************************)
(* Startup.                                                                *)
(***************************************************************************)
\* the pipeline at rest and the collections the uploads write
InitImages ==
    /\ img = NoImage
    /\ source = NoImage
    /\ trail = <<>>
    /\ InitUploads

\* the engagement collections and the request slots at startup
InitEngagement ==
    /\ InitMetrics
    /\ boot = "starting"
    /\ viewsUnique = FALSE
    /\ likesUnique = FALSE
    /\ posts = [p \in PostIds |->
                  CASE p = "p1" -> NewPost("u1", "s1", "published")
                    [] p = "p2" -> NewPost("u2", "s2", "published")
                    [] p = "p3" -> NewPost("u1", "s3", "draft")
                    [] OTHER -> NoPost]
    /\ post_views = [p \in PostIds |-> [u \in Identities |-> 0]]
    /\ viewed_at = [p \in PostIds |-> [u \in Identities |-> <<>>]]
    /\ post_likes = [p \in PostIds |-> [u \in Identities |-> 0]]
    /\ post_comments = [c \in CommentIds |-> NoDoc]
    /\ nextComment = 1
    /\ pc = [r \in Reqs |-> "idle"]
    /\ req = [r \in Reqs |-> NoReq]
    /\ resp = [r \in Reqs |-> NoResp]
    /\ started = 0
    /\ faults = 0
    /\ alone = TRUE
    /\ rvDone = [p \in PostIds |-> [u \in Identities |-> 0]]
    /\ tlStarted = [p \in PostIds |-> [u \in Users |-> 0]]
    /\ tlLog = [p \in PostIds |-> [u \in Users |-> <<>>]]
    /\ minted = Minted(posts)

Init == InitEngagement /\ InitImages

\* EnsureIndexes creates the post_views index, then the post_likes index, and
\* returns at the first error; main logs the error and goes on to serve.
EnsureIndexes ==
    /\ boot = "starting"
    /\ \/ /\ viewsUnique' = TRUE
          /\ likesUnique' = TRUE
          /\ Fault(TRUE)
       \/ /\ FALSE \in StoreOutcomes
          /\ \E okViews \in BOOLEAN :
               /\ viewsUnique' = okViews
               /\ likesUnique' = FALSE
               /\ Fault(FALSE)
    /\ boot' = "serving"
    /\ UNCHANGED <<storeVars, pc, req, resp, histVars, imageVars, metricVars,
                   accountVars, idVars>>

(***************************************************************************)
(* RecordView: POST /blog/posts/{slug}/view (optional identity).           *)
(***************************************************************************)
\* slug check and resolvePostBySlug
RecordView_Resolve(r) ==
    /\ CanStart(r)
    /\ Begin(r)
    /\ \E uid \in Identities, slug \in Slugs, ok \in StoreOutcomes :
         /\ Fault(IF slug = "" THEN TRUE ELSE ok)
         /\ IF slug = ""
              THEN /\ Finish(r, Reply(400))
                   /\ req' = [req EXCEPT ![r] = [NoReq EXCEPT !.kind = "view", !.uid = uid]]
              ELSE IF ~ok \/ PublishedBySlug(slug) = {}
              THEN /\ Finish(r, Reply(404))
                   /\ req' = [req EXCEPT ![r] = [NoReq EXCEPT !.kind = "view", !.uid = uid]]
              ELSE \E p \in PublishedBySlug(slug) :
                   /\ Goto(r, "rv_inc")
                   /\ req' = [req EXCEPT ![r] =
                                [NoReq EXCEPT !.kind = "view", !.uid = uid,
                                              !.post = p,
                                              !.author = posts[p].author_id]]
    /\ UNCHANGED <<storeVars, processVars, imageVars, rvDone, tlStarted, tlLog>>

\* a RecordView that bumps the unique counter where the raw counter is meant
ViewCountField_Swapped == "unique_view_count"

\* the unique view counted on the field of all views
UniqueViewCountField_Views == "view_count"

\* the counter every RecordView increments, and the one a new marker increments
ViewCountField == "view_count"
UniqueViewCountField == "unique_view_count"

\* a RecordView that tracks the marker of anonymous callers too
AfterViewCount_NoIdentityCheck(uid) == "rv_match"

\* what a RecordView that is past its view_count increment does next
AfterViewCount(uid) == IF uid # Nil THEN "rv_match" ELSE "done"

\* $inc view_count; an error ends the request with 500
RecordView_IncViewCount(r) ==
    /\ pc[r] = "rv_inc"
    /\ \E ok \in StoreOutcomes :
         /\ Fault(ok)
         /\ IF ~ok
              THEN /\ Finish(r, Reply(500))
                   /\ UNCHANGED <<posts, rvDone>>
              ELSE /\ posts' = IncField(req[r].post, ViewCountField, 1)
                   /\ IF AfterViewCount(req[r].uid) = "done"
                        THEN /\ Finish(r, Reply(200))
                             /\ rvDone' = [rvDone EXCEPT ![req[r].post][req[r].uid] = @ + 1]
                        ELSE /\ Goto(r, AfterViewCount(req[r].uid))
                             /\ UNCHANGED rvDone
    /\ UNCHANGED <<post_views, viewed_at, post_likes, post_comments, nextComment, processVars, imageVars,
                   req, started, alone, tlStarted, tlLog>>

\* an upsert that writes viewed_at with $set
SetOnInsert_Set(markers, inserted, now) ==
    IF inserted THEN Append(markers, now) ELSE [k \in 1..Len(markers) |-> now]

\* the viewed_at values of the markers of one (post, user) after the upsert:
\* $setOnInsert writes its fields into the document it inserts and nothing
\* into a document it matched
SetOnInsert(markers, inserted, now) ==
    IF inserted THEN Append(markers, now) ELSE markers

\* the upsert's query phase: a matching marker makes the update a no-op
\* ($setOnInsert writes nothing on a match, UpsertedCount = 0)
RecordView_UpsertMatch(r) ==
    /\ pc[r] = "rv_match"
    /\ \E ok \in StoreOutcomes :
         /\ Fault(ok)
         /\ IF ~ok \/ post_views[req[r].post][req[r].uid] > 0
              THEN /\ Finish(r, Reply(200))
                   /\ rvDone' = [rvDone EXCEPT ![req[r].post][req[r].uid] = @ + 1]
              ELSE /\ Goto(r, "rv_insert")
                   /\ UNCHANGED rvDone
         /\ viewed_at' =
              IF ok /\ post_views[req[r].post][req[r].uid] > 0
                THEN [viewed_at EXCEPT ![req[r].post][req[r].uid] =
                        SetOnInsert(@, FALSE, Now)]
                ELSE viewed_at
    /\ UNCHANGED <<posts, post_views, post_likes, post_comments, nextComment,
                   processVars, imageVars, req, started, alone, tlStarted, tlLog>>

\* an upsert that reports an upserted document whatever the index says
UpsertedCount_Always(n, unique) == 1

\* the marker the upsert's insert phase leaves behind and its UpsertedCount:
\* under the unique index a marker inserted meanwhile wins (the upsert then
\* matches it or reports a duplicate key; either way nothing was upserted)
UpsertedCount(n, unique) == IF unique /\ n > 0 THEN 0 ELSE 1

\* the upsert's insert phase
RecordView_UpsertInsert(r) ==
    /\ pc[r] = "rv_insert"
    /\ LET p == req[r].post
           u == req[r].uid
           n == UpsertedCount(post_views[p][u], viewsUnique)
       IN /\ post_views' = [post_views EXCEPT ![p][u] = @ + n]
          /\ viewed_at' = [viewed_at EXCEPT ![p][u] = SetOnInsert(@, n > 0, Now)]
          /\ req' = [req EXCEPT ![r].upserted = n,
                                ![r].raced = (post_views[p][u] > 0)]
          /\ IF n > 0
               THEN /\ Goto(r, "rv_unique")
                    /\ UNCHANGED rvDone
               ELSE /\ Finish(r, Reply(200))
                    /\ rvDone' = [rvDone EXCEPT ![p][u] = @ + 1]
    /\ UNCHANGED <<posts, post_likes, post_comments, nextComment, processVars, imageVars,
                   started, faults, alone, tlStarted, tlLog>>

\* $inc unique_view_count; its error is not looked at
RecordView_IncUniqueViewCount(r) ==
    /\ pc[r] = "rv_unique"
    /\ \E ok \in StoreOutcomes :
         /\ Fault(ok)
         /\ posts' = IF ok THEN IncField(req[r].post, UniqueViewCountField, 1)
                           ELSE posts
    /\ Finish(r, Reply(200))
    /\ rvDone' = [rvDone EXCEPT ![req[r].post][req[r].uid] = @ + 1]
    /\ UNCHANGED <<post_views, viewed_at, post_likes, post_comments, nextComment, processVars, imageVars,
                   req, started, alone, tlStarted, tlLog>>

RecordView(r) ==
    \/ RecordView_Resolve(r)
    \/ RecordView_IncViewCount(r)
    \/ RecordView_UpsertMatch(r)
    \/ RecordView_UpsertInsert(r)
    \/ RecordView_IncUniqueViewCount(r)

(***************************************************************************)
(* GetPostStats: GET /blog/posts/{slug}/stats (optional identity).         *)
(***************************************************************************)
\* models.PostStatsResponse filled from the post document just read
StatsOf(post) ==
    [NoResp EXCEPT !.view_count = post.view_count,
                   !.unique_view_count = post.unique_view_count,
                   !.like_count = post.like_count,
                   !.comment_count = post.comment_count]

\* a stats handler that never looks at the caller's marker
StatsLiked_Never(ok, count) == "false"

\* stats.Liked after CountDocuments on post_likes returned (count, err)
StatsLiked(ok, count) == IF ok /\ count > 0 THEN "true" ELSE "false"

\* slug check, resolvePostBySlug, copy of the four counters; without an
\* identity the response goes out with Liked at its zero value
GetPostStats_Resolve(r) ==
    /\ CanStart(r)
    /\ Begin(r)
    /\ \E uid \in Identities, slug \in Slugs, ok \in StoreOutcomes :
         /\ Fault(IF slug = "" THEN TRUE ELSE ok)
         /\ IF slug = ""
              THEN /\ Finish(r, Reply(400))
                   /\ req' = [req EXCEPT ![r] = [NoReq EXCEPT !.kind = "stats", !.uid = uid]]
              ELSE IF ~ok \/ PublishedBySlug(slug) = {}
              THEN /\ Finish(r, Reply(404))
                   /\ req' = [req EXCEPT ![r] = [NoReq EXCEPT !.kind = "stats", !.uid = uid]]
              ELSE \E p \in PublishedBySlug(slug) :
                   /\ req' = [req EXCEPT ![r] =
                                [NoReq EXCEPT !.kind = "stats", !.uid = uid,
                                              !.post = p,
                                              !.author = posts[p].author_id]]
                   /\ IF uid = Nil
                        THEN Finish(r, [StatsOf(posts[p]) EXCEPT !.code = 200,
                                                                 !.liked = "false"])
                        ELSE /\ pc' = [pc EXCEPT ![r] = "gs_count"]
                             /\ resp' = [resp EXCEPT ![r] = StatsOf(posts[p])]
    /\ UNCHANGED <<storeVars, processVars, imageVars, rvDone, tlStarted, tlLog>>

\* CountDocuments on post_likes for (post, caller)
GetPostStats_CountLikes(r) ==
    /\ pc[r] = "gs_count"
    /\ \E ok \in StoreOutcomes :
         /\ Fault(ok)
         /\ Finish(r, [resp[r] EXCEPT
                         !.code = 200,
                         !.liked = StatsLiked(ok, post_likes[req[r].post][req[r].uid])])
    /\ UNCHANGED <<storeVars, processVars, imageVars, req, histVars>>

GetPostStats(r) ==
    \/ GetPostStats_Resolve(r)
    \/ GetPostStats_CountLikes(r)

(***************************************************************************)
(* ToggleLike: POST /blog/posts/{slug}/like (identity required).           *)
(***************************************************************************)
LogToggle(r, outcome) ==
    tlLog' = [tlLog EXCEPT ![req[r].post][req[r].uid] = Append(@, outcome)]

\* identity check, slug check, resolvePostBySlug
ToggleLike_Resolve(r) ==
    /\ CanStart(r)
    /\ Begin(r)
    /\ \E uid \in Identities, slug \in Slugs, ok \in StoreOutcomes :
         /\ Fault(IF uid = Nil \/ slug = "" THEN TRUE ELSE ok)
         /\ IF uid = Nil
              THEN /\ Finish(r, Reply(401))
                   /\ req' = [req EXCEPT ![r] = [NoReq EXCEPT !.kind = "like"]]
                   /\ UNCHANGED tlStarted
              ELSE IF slug = ""
              THEN /\ Finish(r, Reply(400))
                   /\ req' = [req EXCEPT ![r] = [NoReq EXCEPT !.kind = "like", !.uid = uid]]
                   /\ UNCHANGED tlStarted
              ELSE IF ~ok \/ PublishedBySlug(slug) = {}
              THEN /\ Finish(r, Reply(404))
                   /\ req' = [req EXCEPT ![r] = [NoReq EXCEPT !.kind = "like", !.uid = uid]]
                   /\ UNCHANGED tlStarted
              ELSE \E p \in PublishedBySlug(slug) :
                   /\ Goto(r, "tl_delete")
                   /\ req' = [req EXCEPT ![r] =
                                [NoReq EXCEPT !.kind = "like", !.uid = uid,
                                              !.post = p,
                                              !.author = posts[p].author_id]]
                   /\ tlStarted' = [tlStarted EXCEPT ![p][uid] = @ + 1]
    /\ UNCHANGED <<storeVars, processVars, imageVars, rvDone, tlLog>>

\* DeleteOne's DeletedCount for a filter that n documents match
DeletedCount(n) == IF n > 0 THEN 1 ELSE 0

\* DeleteOne on post_likes for (post, user); an error ends the request with 500
ToggleLike_Delete(r) ==
    /\ pc[r] = "tl_delete"
    /\ LET p == req[r].post
           u == req[r].uid
           d == DeletedCount(post_likes[p][u])
       IN \E ok \in StoreOutcomes :
            /\ Fault(ok)
            /\ IF ~ok
                 THEN /\ Finish(r, Reply(500))
                      /\ LogToggle(r, "error")
                      /\ UNCHANGED <<post_likes, req>>
                 ELSE /\ post_likes' = [post_likes EXCEPT ![p][u] = @ - d]
                      /\ req' = [req EXCEPT ![r].deleted = d]
                      /\ Goto(r, IF d > 0 THEN "tl_dec" ELSE "tl_insert")
                      /\ UNCHANGED tlLog
    /\ UNCHANGED <<posts, post_views, viewed_at, post_comments, nextComment, processVars, imageVars,
                   started, alone, rvDone, tlStarted>>

\* unlike: $inc like_count -1; its error is not looked at
ToggleLike_Decrement(r) ==
    /\ pc[r] = "tl_dec"
    /\ \E ok \in StoreOutcomes :
         /\ Fault(ok)
         /\ posts' = IF ok THEN IncField(req[r].post, "like_count", -1) ELSE posts
    /\ Goto(r, "tl_fetch")
    /\ UNCHANGED <<post_views, viewed_at, post_likes, post_comments, nextComment, processVars, imageVars,
                   req, histVars>>

\* an insert that no index guards
InsertAccepted_NoIndex(n, unique) == TRUE

\* InsertOne on a collection holding n documents with the same key succeeds
\* unless the unique index rejects the duplicate key
InsertAccepted(n, unique) == ~(unique /\ n > 0)

\* an insert whose rejection is not looked at: the request goes on to its
\* increment
ToggleLike_Insert_ErrorIgnored(r) ==
    /\ pc[r] = "tl_insert"
    /\ LET p == req[r].post
           u == req[r].uid
       IN \E ok \in StoreOutcomes :
            /\ Fault(ok)
            /\ post_likes' = IF ok /\ InsertAccepted(post_likes[p][u], likesUnique)
                               THEN [post_likes EXCEPT ![p][u] = @ + 1]
                               ELSE post_likes
            /\ req' = [req EXCEPT ![r].inserted = TRUE]
            /\ Goto(r, "tl_inc")
            /\ UNCHANGED tlLog
    /\ UNCHANGED <<posts, post_views, viewed_at, post_comments, nextComment, processVars, imageVars,
                   started, alone, rvDone, tlStarted>>

\* like: InsertOne on post_likes; any error ends the request with 500
ToggleLike_Insert(r) ==
    /\ pc[r] = "tl_insert"
    /\ LET p == req[r].post
           u == req[r].uid
       IN \E ok \in StoreOutcomes :
            /\ Fault(ok)
            /\ IF ~ok \/ ~InsertAccepted(post_likes[p][u], likesUnique)
                 THEN /\ Finish(r, Reply(500))
                      /\ LogToggle(r, "error")
                      /\ UNCHANGED <<post_likes, req>>
                 ELSE /\ post_likes' = [post_likes EXCEPT ![p][u] = @ + 1]
                      /\ req' = [req EXCEPT ![r].inserted = TRUE]
                      /\ Goto(r, "tl_inc")
                      /\ UNCHANGED tlLog
    /\ UNCHANGED <<posts, post_views, viewed_at, post_comments, nextComment, processVars, imageVars,
                   started, alone, rvDone, tlStarted>>

\* like: $inc like_count +1; its error is not looked at
ToggleLike_Increment(r) ==
    /\ pc[r] = "tl_inc"
    /\ \E ok \in StoreOutcomes :
         /\ Fault(ok)
         /\ posts' = IF ok THEN IncField(req[r].post, "like_count", 1) ELSE posts
    /\ Goto(r, "tl_fetch")
    /\ UNCHANGED <<post_views, viewed_at, post_likes, post_comments, nextComment, processVars, imageVars,
                   req, histVars>>

\* a response that reports the state before the toggle
LikedOf_Stale(deleted) == IF deleted > 0 THEN "true" ELSE "false"

\* liked of the response: false after a delete, true after an insert
LikedOf(deleted) == IF deleted > 0 THEN "false" ELSE "true"

\* re-read of the post for like_count (zero value when the read fails), response
ToggleLike_Fetch(r) ==
    /\ pc[r] = "tl_fetch"
    /\ \E ok \in StoreOutcomes :
         /\ Fault(ok)
         /\ Finish(r, [Reply(200) EXCEPT
                         !.liked = LikedOf(req[r].deleted),
                         !.like_count = IF ok THEN posts[req[r].post].like_count ELSE 0])
    /\ LogToggle(r, LikedOf(req[r].deleted))
    /\ UNCHANGED <<storeVars, processVars, imageVars, req, started, alone, rvDone, tlStarted>>

ToggleLike(r) ==
    \/ ToggleLike_Resolve(r)
    \/ ToggleLike_Delete(r)
    \/ ToggleLike_Decrement(r)
    \/ ToggleLike_Insert(r)
    \/ ToggleLike_Increment(r)
    \/ ToggleLike_Fetch(r)

(***************************************************************************)
(* CreateComment: POST /blog/posts/{slug}/comments (identity required).    *)
(***************************************************************************)
\* request bodies; json = FALSE is a body that is not JSON
Bodies ==
    [json : {TRUE}, runes : RuneCounts, width : RuneWidths]
      \cup {[json |-> FALSE, runes |-> 0, width |-> 1]}

\* history: whether the content has between MinContentLen and MaxContentLen
\* characters
CharCount(body) ==
    IF body.runes \in MinContentLen..MaxContentLen THEN "in range" ELSE "out of range"

\* len(req.Content): the number of bytes of the content
ByteLen(body) == body.runes * body.width

\* the length check on req.Content
ContentAccepted(len) == ~(len < MinContentLen \/ len > MaxContentLen)

\* identity, slug, body and length checks, resolvePostBySlug, fresh comment id
CreateComment_Resolve(r) ==
    /\ CanStart(r)
    /\ Begin(r)
    /\ \E uid \in Identities, slug \in Slugs, body \in Bodies, ok \in StoreOutcomes :
         LET early == IF uid = Nil THEN 401
                      ELSE IF slug = "" THEN 400
                      ELSE IF ~body.json THEN 400
                      ELSE IF ~ContentAccepted(ByteLen(body)) THEN 400
                      ELSE 0
             decoded == IF uid # Nil /\ slug # "" /\ body.json
                          THEN CharCount(body) ELSE "none"
         IN /\ Fault(IF early # 0 THEN TRUE ELSE ok)
            /\ IF early # 0
                 THEN /\ Finish(r, Reply(early))
                      /\ req' = [req EXCEPT ![r] =
                                   [NoReq EXCEPT !.kind = "comment", !.uid = uid,
                                                 !.content = decoded]]
                      /\ UNCHANGED nextComment
                 ELSE IF ~ok \/ PublishedBySlug(slug) = {}
                 THEN /\ Finish(r, Reply(404))
                      /\ req' = [req EXCEPT ![r] =
                                   [NoReq EXCEPT !.kind = "comment", !.uid = uid,
                                                 !.ref = slug,
                                                 !.content = decoded]]
                      /\ UNCHANGED nextComment
                 ELSE \E p \in PublishedBySlug(slug) :
                      /\ nextComment <= MaxComments
                      /\ Goto(r, "cc_insert")
                      /\ req' = [req EXCEPT ![r] =
                                   [NoReq EXCEPT !.kind = "comment", !.uid = uid,
                                                 !.post = p,
                                                 !.author = posts[p].author_id,
                                                 !.cid = nextComment,
                                                 !.ref = slug,
                                                 !.content = decoded]]
                      /\ nextComment' = nextComment + 1
    /\ UNCHANGED <<posts, post_views, viewed_at, post_likes, post_comments, processVars, imageVars,
                   rvDone, tlStarted, tlLog>>

\* InsertOne on post_comments; an error ends the request with 500
CreateComment_Insert(r) ==
    /\ pc[r] = "cc_insert"
    /\ \E ok \in StoreOutcomes :
         /\ Fault(ok)
         /\ IF ~ok
              THEN /\ Finish(r, Reply(500))
                   /\ UNCHANGED post_comments
              ELSE /\ post_comments' =
                        [post_comments EXCEPT ![req[r].cid] =
                           [present |-> TRUE, post_id |-> req[r].post,
                            user_id |-> req[r].uid]]
                   /\ Goto(r, "cc_inc")
    /\ UNCHANGED <<posts, post_views, viewed_at, post_likes, nextComment, processVars, imageVars, req,
                   histVars>>

\* $inc comment_count +1; its error is not looked at
CreateComment_Increment(r) ==
    /\ pc[r] = "cc_inc"
    /\ \E ok \in StoreOutcomes :
         /\ Fault(ok)
         /\ posts' = IF ok THEN IncField(req[r].post, "comment_count", 1) ELSE posts
    /\ Goto(r, "cc_enrich")
    /\ UNCHANGED <<post_views, viewed_at, post_likes, post_comments, nextComment, processVars, imageVars,
                   req, histVars>>

\* enrichCommentsWithAuthor: Find on profiles for the response, its error
\* ignored; then 201
CreateComment_Enrich(r) ==
    /\ pc[r] = "cc_enrich"
    /\ \E ok \in StoreOutcomes : Fault(ok)
    /\ Finish(r, Reply(201))
    /\ UNCHANGED <<storeVars, processVars, imageVars, req, histVars>>

CreateComment(r) ==
    \/ CreateComment_Resolve(r)
    \/ CreateComment_Insert(r)
    \/ CreateComment_Increment(r)
    \/ CreateComment_Enrich(r)

(***************************************************************************)
(* DeleteComment: DELETE /blog/posts/{slug}/comments/{id}.                 *)
(***************************************************************************)
\* identity check, comment id parse, resolvePostBySlug
DeleteComment_Resolve(r) ==
    /\ CanStart(r)
    /\ Begin(r)
    /\ \E uid \in Identities, slug \in Slugs, cid \in CommentIdInputs,
          ok \in StoreOutcomes :
         LET early == IF uid = Nil THEN 401 ELSE IF cid = 0 THEN 400 ELSE 0
         IN /\ Fault(IF early # 0 THEN TRUE ELSE ok)
            /\ IF early # 0
                 THEN /\ Finish(r, Reply(early))
                      /\ req' = [req EXCEPT ![r] =
                                   [NoReq EXCEPT !.kind = "uncomment", !.uid = uid]]
                 ELSE IF ~ok \/ PublishedBySlug(slug) = {}
                 THEN /\ Finish(r, Reply(404))
                      /\ req' = [req EXCEPT ![r] =
                                   [NoReq EXCEPT !.kind = "uncomment", !.uid = uid]]
                 ELSE \E p \in PublishedBySlug(slug) :
                      /\ Goto(r, "dc_find")
                      /\ req' = [req EXCEPT ![r] =
                                   [NoReq EXCEPT !.kind = "uncomment", !.uid = uid,
                                                 !.post = p,
                                                 !.author = posts[p].author_id,
                                                 !.cid = cid]]
    /\ UNCHANGED <<storeVars, processVars, imageVars, rvDone, tlStarted, tlLog>>

\* an authorization that forgets the post's author
OwnsCommentOrPost_CommentOnly(uid, commentUser, postAuthor) ==
    commentUser = uid

\* the part of the authorization decided without a store call:
\* the requester wrote the comment, or wrote the post
OwnsCommentOrPost(uid, commentUser, postAuthor) ==
    \/ commentUser = uid
    \/ postAuthor = uid

\* the admin check on the requester's profile, read with outcome ok
IsAdmin(ok, uid) == ok /\ ProfileRole(uid) = "admin"

\* FindOne on post_comments by {_id, post_id}: 404 when no document matches,
\* 500 on another error; then the first two authorization tests
DeleteComment_Find(r) ==
    /\ pc[r] = "dc_find"
    /\ LET doc == post_comments[req[r].cid]
       IN \E ok \in StoreOutcomes :
            /\ Fault(ok)
            /\ IF ~ok
                 THEN /\ Finish(r, Reply(500))
                      /\ UNCHANGED req
                 ELSE IF ~doc.present \/ doc.post_id # req[r].post
                 THEN /\ Finish(r, Reply(404))
                      /\ UNCHANGED req
                 ELSE /\ req' = [req EXCEPT ![r].cuser = doc.user_id]
                      /\ Goto(r, IF OwnsCommentOrPost(req[r].uid, doc.user_id,
                                                      req[r].author)
                                   THEN "dc_delete" ELSE "dc_role")
    /\ UNCHANGED <<storeVars, processVars, imageVars, histVars>>

\* FindOne on profiles for the requester; not an admin (or no answer): 403
DeleteComment_CheckRole(r) ==
    /\ pc[r] = "dc_role"
    /\ \E ok \in StoreOutcomes :
         /\ Fault(ok)
         /\ IF IsAdmin(ok, req[r].uid)
              THEN Goto(r, "dc_delete")
              ELSE Finish(r, Reply(403))
    /\ UNCHANGED <<storeVars, processVars, imageVars, req, histVars>>

\* DeleteOne on post_comments by {_id}; DeletedCount is not looked at
DeleteComment_Delete(r) ==
    /\ pc[r] = "dc_delete"
    /\ \E ok \in StoreOutcomes :
         /\ Fault(ok)
         /\ IF ~ok
              THEN /\ Finish(r, Reply(500))
                   /\ UNCHANGED <<post_comments, req>>
              ELSE /\ post_comments' = [post_comments EXCEPT ![req[r].cid] = NoDoc]
                   /\ req' = [req EXCEPT ![r].deleted =
                                DeletedCount(IF post_comments[req[r].cid].present
                                               THEN 1 ELSE 0)]
                   /\ Goto(r, "dc_dec")
    /\ UNCHANGED <<posts, post_views, viewed_at, post_likes, nextComment, processVars, imageVars, histVars>>

\* $inc comment_count -1; its error is not looked at
DeleteComment_Decrement(r) ==
    /\ pc[r] = "dc_dec"
    /\ \E ok \in StoreOutcomes :
         /\ Fault(ok)
         /\ posts' = IF ok THEN IncField(req[r].post, "comment_count", -1) ELSE posts
    /\ Finish(r, Reply(200))
    /\ UNCHANGED <<post_views, viewed_at, post_likes, post_comments, nextComment, processVars, imageVars,
                   req, histVars>>

DeleteComment(r) ==
    \/ DeleteComment_Resolve(r)
    \/ DeleteComment_Find(r)
    \/ DeleteComment_CheckRole(r)
    \/ DeleteComment_Delete(r)
    \/ DeleteComment_Decrement(r)

(***************************************************************************)
(* Post management: PUT and DELETE /blog/posts/{id} (admin or author).     *)
(***************************************************************************)
\* values of the {id} path segment: a hex ObjectID selects by _id, anything
\* else selects by slug
PostRefs == {"p1", "s2", "none"}

\* roles RequireRole lets through on the post management routes
AllowedRoles == {"admin", "author"}

\* the posts FindOne(filter) can return, whatever their status
FindPost(ref) ==
    IF ref \in PostIds
      THEN {p \in PostIds : p = ref /\ posts[p] # NoPost}
      ELSE {p \in PostIds : posts[p] # NoPost /\ posts[p].slug = ref}

\* outcome of Auth and RequireRole in front of the handler: 0 lets the
\* request through
RequireRole(uid, ok) ==
    IF uid = Nil THEN 401
    ELSE IF ~ok THEN 403
    ELSE IF ProfileRole(uid) \notin AllowedRoles THEN 403
    ELSE 0

\* what is left of a handler's locals once it has returned
Returned(locals) ==
    [NoReq EXCEPT !.kind = locals.kind, !.uid = locals.uid, !.post = locals.post]

\* the handler in slot r writes its response and returns
Return(r, response) ==
    /\ Finish(r, response)
    /\ req' = [req EXCEPT ![r] = Returned(@)]

\* Auth, RequireRole, path value
DeletePost_RequireRole(r) ==
    /\ CanStart(r)
    /\ Begin(r)
    /\ \E uid \in Identities, ref \in PostRefs, ok \in StoreOutcomes :
         /\ Fault(IF uid = Nil THEN TRUE ELSE ok)
         /\ IF RequireRole(uid, ok) # 0
              THEN /\ Finish(r, Reply(RequireRole(uid, ok)))
                   /\ req' = [req EXCEPT ![r] =
                                [NoReq EXCEPT !.kind = "delpost", !.uid = uid]]
              ELSE /\ Goto(r, "dp_find")
                   /\ req' = [req EXCEPT ![r] =
                                [NoReq EXCEPT !.kind = "delpost", !.uid = uid,
                                              !.ref = ref]]
    /\ UNCHANGED <<storeVars, processVars, imageVars, rvDone, tlStarted, tlLog>>

\* FindOne on posts by _id or slug; then the ownership test
DeletePost_Find(r) ==
    /\ pc[r] = "dp_find"
    /\ \E ok \in StoreOutcomes :
         /\ Fault(ok)
         /\ IF ~ok \/ FindPost(req[r].ref) = {}
              THEN Return(r, Reply(404))
              ELSE \E p \in FindPost(req[r].ref) :
                   /\ req' = [req EXCEPT ![r].post = p,
                                         ![r].author = posts[p].author_id,
                                         ![r].ref = "none"]
                   /\ Goto(r, IF posts[p].author_id # req[r].uid
                                THEN "dp_role" ELSE "dp_delete")
    /\ UNCHANGED <<storeVars, processVars, imageVars, histVars>>

\* FindOne on profiles for a requester who is not the author: only an admin
\* goes on
DeletePost_CheckRole(r) ==
    /\ pc[r] = "dp_role"
    /\ \E ok \in StoreOutcomes :
         /\ Fault(ok)
         /\ IF IsAdmin(ok, req[r].uid)
              THEN Goto(r, "dp_delete") /\ UNCHANGED req
              ELSE Return(r, Reply(403))
    /\ UNCHANGED <<storeVars, processVars, imageVars, histVars>>

\* the collections the post management handlers never write
PostDependents == <<post_views, viewed_at, post_likes, post_comments, nextComment>>

\* a DeletePost that also removes the comments of the post
OrphanComments_Cascade(p) ==
    [c \in CommentIds |->
       IF post_comments[c].post_id = p THEN NoDoc ELSE post_comments[c]]

\* post_comments after DeletePost removed post p: the handler issues no call
\* on it, the comments that reference p stay
OrphanComments(p) == post_comments

\* DeleteOne on posts by _id: the only write of DeletePost
DeletePost_Delete(r) ==
    /\ pc[r] = "dp_delete"
    /\ \E ok \in StoreOutcomes :
         /\ Fault(ok)
         /\ IF ~ok
              THEN /\ Return(r, Reply(500))
                   /\ UNCHANGED <<posts, post_comments>>
              ELSE /\ posts' = [posts EXCEPT ![req[r].post] = NoPost]
                   /\ post_comments' = OrphanComments(req[r].post)
                   /\ Return(r, Reply(200))
    /\ UNCHANGED <<post_views, viewed_at, post_likes, nextComment, processVars, imageVars,
                   histVars>>

DeletePost(r) ==
    \/ DeletePost_RequireRole(r)
    \/ DeletePost_Find(r)
    \/ DeletePost_CheckRole(r)
    \/ DeletePost_Delete(r)

\* titles of an UpdatePost body, as sequences of characters; <<>> is no title
Titles == {<<" ", "S", "1", "!">>}

\* strings.ToLower on one character
ToLower(c) ==
    CASE c = "S" -> "s"
      [] c = "A" -> "a"
      [] OTHER -> c

\* the accent replacer on one character
Unaccent(c) ==
    CASE c \in {"á", "à", "ã", "â", "ä"} -> "a"
      [] c = "ç" -> "c"
      [] OTHER -> c

\* unicode.IsLetter(c) || unicode.IsDigit(c) on the characters of Titles
IsLetterOrDigit(c) == c \in {"s", "a", "c", "1", "2"}

Hyphenate(c) == IF IsLetterOrDigit(c) THEN c ELSE "-"

\* "-+" replaced by "-"
RECURSIVE CollapseHyphens(_)
CollapseHyphens(t) ==
    IF Len(t) < 2 THEN t
    ELSE IF t[1] = "-" /\ t[2] = "-" THEN CollapseHyphens(Tail(t))
    ELSE <<t[1]>> \o CollapseHyphens(Tail(t))

\* strings.Trim(slug, "-")
RECURSIVE TrimHyphens(_)
TrimHyphens(t) ==
    IF t = <<>> THEN t
    ELSE IF t[1] = "-" THEN TrimHyphens(Tail(t))
    ELSE IF t[Len(t)] = "-" THEN TrimHyphens(SubSeq(t, 1, Len(t) - 1))
    ELSE t

RECURSIVE Join(_)
Join(t) == IF t = <<>> THEN "" ELSE t[1] \o Join(Tail(t))

generateSlug(title) ==
    Join(TrimHyphens(CollapseHyphens(
        [i \in 1..Len(title) |-> Hyphenate(Unaccent(ToLower(title[i])))])))

\* ensureUniqueSlug: the candidate tried after counter - 1 taken ones
Candidate(base, counter) ==
    IF counter = 1 THEN base ELSE base \o "-" \o ToString(counter)

\* CountDocuments({slug: candidate, _id: {$ne: excludeID}})
CountSlug(candidate, excludeID) ==
    Cardinality({q \in PostIds \ {excludeID} :
                    posts[q] # NoPost /\ posts[q].slug = candidate})

\* status values of an UpdatePost body; "nil" is no status
StatusInputs == {"nil", "draft", "archived"}

StatusAccepted(status) == status \in {"nil", "draft", "published"}

\* UpdatePost bodies; json = FALSE is a body that is not JSON
UpdateBodies ==
    [json : {TRUE}, title : Titles \cup {<<>>}, status : StatusInputs]
      \cup {[json |-> FALSE, title |-> <<>>, status |-> "nil"]}

\* the status test that closes the construction of the update document;
\* locals are the handler's variables at that point
UpdatePost_CheckStatus(r, locals) ==
    IF StatusAccepted(locals.status)
      THEN /\ Goto(r, "up_write")
           /\ req' = [req EXCEPT ![r] = locals]
      ELSE /\ Finish(r, Reply(400))
           /\ req' = [req EXCEPT ![r] = Returned(locals)]

\* the construction of the update document: a title asks for a unique slug
UpdatePost_Build(r, locals) ==
    IF locals.title # <<>>
      THEN /\ Goto(r, "up_slug")
           /\ req' = [req EXCEPT ![r] = locals]
      ELSE UpdatePost_CheckStatus(r, locals)

\* Auth, RequireRole, path value, body decode
UpdatePost_RequireRole(r) ==
    /\ CanStart(r)
    /\ Begin(r)
    /\ \E uid \in Identities, ref \in PostRefs, body \in UpdateBodies,
          ok \in StoreOutcomes :
         LET early == IF RequireRole(uid, ok) # 0 THEN RequireRole(uid, ok)
                      ELSE IF ~body.json THEN 400
                      ELSE 0
         IN /\ Fault(IF uid = Nil THEN TRUE ELSE ok)
            /\ IF early # 0
                 THEN /\ Finish(r, Reply(early))
                      /\ req' = [req EXCEPT ![r] =
                                   [NoReq EXCEPT !.kind = "update", !.uid = uid]]
                 ELSE /\ Goto(r, "up_find")
                      /\ req' = [req EXCEPT ![r] =
                                   [NoReq EXCEPT !.kind = "update", !.uid = uid,
                                                 !.ref = ref,
                                                 !.title = body.title,
                                                 !.status = body.status]]
    /\ UNCHANGED <<storeVars, processVars, imageVars, rvDone, tlStarted, tlLog>>

\* FindOne on posts by _id or slug; then the ownership test
UpdatePost_Find(r) ==
    /\ pc[r] = "up_find"
    /\ \E ok \in StoreOutcomes :
         /\ Fault(ok)
         /\ IF ~ok \/ FindPost(req[r].ref) = {}
              THEN Return(r, Reply(404))
              ELSE \E p \in FindPost(req[r].ref) :
                   LET locals == [req[r] EXCEPT
                                    !.post = p,
                                    !.author = posts[p].author_id,
                                    !.ref = "none",
                                    !.base = generateSlug(req[r].title),
                                    !.candidate = generateSlug(req[r].title),
                                    !.counter = 1]
                   IN IF posts[p].author_id # req[r].uid
                        THEN /\ Goto(r, "up_role")
                             /\ req' = [req EXCEPT ![r] = locals]
                        ELSE UpdatePost_Build(r, locals)
    /\ UNCHANGED <<storeVars, processVars, imageVars, histVars>>

\* FindOne on profiles for a requester who is not the author
UpdatePost_CheckRole(r) ==
    /\ pc[r] = "up_role"
    /\ \E ok \in StoreOutcomes :
         /\ Fault(ok)
         /\ IF IsAdmin(ok, req[r].uid)
              THEN UpdatePost_Build(r, req[r])
              ELSE Return(r, Reply(403))
    /\ UNCHANGED <<storeVars, processVars, imageVars, histVars>>

\* one turn of ensureUniqueSlug's loop; on an error the slug is not set
UpdatePost_CountSlug(r) ==
    /\ pc[r] = "up_slug"
    /\ \E ok \in StoreOutcomes :
         /\ Fault(ok)
         /\ IF ~ok
              THEN UpdatePost_CheckStatus(r, req[r])
              ELSE IF CountSlug(req[r].candidate, req[r].post) = 0
              THEN UpdatePost_CheckStatus(r, [req[r] EXCEPT !.slug = req[r].candidate])
              ELSE /\ Goto(r, "up_slug")
                   /\ req' = [req EXCEPT
                                ![r].counter = @ + 1,
                                ![r].candidate = Candidate(req[r].base,
                                                           req[r].counter + 1)]
    /\ UNCHANGED <<storeVars, processVars, imageVars, histVars>>

\* the post after $set of the fields the update document carries: slug and
\* status at most, never a counter
\* an update that writes the whole document, counters as they were created
SetFields_WholeDocument(post, slug, status) ==
    [NewPost(post.author_id, post.slug, post.status) EXCEPT
       !.slug = IF slug # "none" THEN slug ELSE @,
       !.status = IF status # "nil" THEN status ELSE @]

SetFields(post, slug, status) ==
    [post EXCEPT !.slug = IF slug # "none" THEN slug ELSE @,
                 !.status = IF status # "nil" THEN status ELSE @]

\* UpdateOne on posts by _id with the update document
UpdatePost_Write(r) ==
    /\ pc[r] = "up_write"
    /\ \E ok \in StoreOutcomes :
         /\ Fault(ok)
         /\ IF ~ok
              THEN /\ Return(r, Reply(500))
                   /\ UNCHANGED posts
              ELSE /\ posts' = IF posts[req[r].post] = NoPost
                                 THEN posts
                                 ELSE [posts EXCEPT ![req[r].post] =
                                         SetFields(@, req[r].slug, req[r].status)]
                   /\ Goto(r, "up_fetch")
                   /\ req' = [req EXCEPT ![r] = Returned(@)]
    /\ UNCHANGED <<PostDependents, processVars, imageVars, histVars>>

\* Posts().FindOne: re-read of the post for the response, its error ignored
UpdatePost_Fetch(r) ==
    /\ pc[r] = "up_fetch"
    /\ \E ok \in StoreOutcomes : Fault(ok)
    /\ Goto(r, "up_enrich")
    /\ UNCHANGED <<storeVars, processVars, imageVars, req, histVars>>

\* enrichPostsWithAuthor: Find on profiles for the response, errors
\* ignored; then 200. IncPostUpdated raises a counter that is not among
\* CounterNames
UpdatePost_Enrich(r) ==
    /\ pc[r] = "up_enrich"
    /\ \E ok \in StoreOutcomes : Fault(ok)
    /\ Finish(r, Reply(200))
    /\ UNCHANGED <<storeVars, processVars, imageVars, req, histVars>>

UpdatePost(r) ==
    \/ UpdatePost_RequireRole(r)
    \/ UpdatePost_Find(r)
    \/ UpdatePost_CheckRole(r)
    \/ UpdatePost_CountSlug(r)
    \/ UpdatePost_Write(r)
    \/ UpdatePost_Fetch(r)
    \/ UpdatePost_Enrich(r)

(***************************************************************************)
(* IncPostCreated, IncUserRegistered: the counters a handler raises, under *)
(* metrics.mu like the counters of MetricsMiddleware.                      *)
(***************************************************************************)
\* the counter the handler of a request raises
CounterOf(kind) == IF kind = "create" THEN "postsCreated" ELSE "usersRegistered"

\* the holder of metrics.mu when it is the handler in slot r
Holder(r) == MaxGoroutines + r

\* metrics.mu.Lock() in the Inc* function of counter
Inc_Lock(r, counter) ==
    /\ pc[r] = "inc_lock"
    /\ CounterOf(req[r].kind) = counter
    /\ CanLock(metrics.mu)
    /\ metrics' = [metrics EXCEPT !.mu.writer = Holder(r)]
    /\ Goto(r, "inc_load")
    /\ UNCHANGED <<storeVars, indexVars, imageVars, histVars, accountVars, idVars,
                   goroutines, tally, req, faults>>

\* the read of counter++
Inc_Load(r, counter) ==
    /\ pc[r] = "inc_load"
    /\ CounterOf(req[r].kind) = counter
    /\ req' = [req EXCEPT ![r].tmp = metrics[counter]]
    /\ Goto(r, "inc_store")
    /\ UNCHANGED <<storeVars, processVars, imageVars, histVars, faults>>

\* the write of counter++
Inc_Store(r, counter) ==
    /\ pc[r] = "inc_store"
    /\ CounterOf(req[r].kind) = counter
    /\ metrics' = [metrics EXCEPT ![counter] = req[r].tmp + 1]
    /\ tally' = [tally EXCEPT !.calls[counter] = @ + 1]
    /\ req' = [req EXCEPT ![r].tmp = 0]
    /\ Goto(r, "inc_unlock")
    /\ UNCHANGED <<storeVars, indexVars, imageVars, histVars, accountVars, idVars,
                   goroutines, faults>>

\* metrics.mu.Unlock(); CreatePost goes on to its response body, Register
\* answers 201
Inc_Unlock(r, counter) ==
    /\ pc[r] = "inc_unlock"
    /\ CounterOf(req[r].kind) = counter
    /\ metrics' = [metrics EXCEPT !.mu.writer = 0]
    /\ IF counter = "postsCreated"
         THEN Goto(r, "cp_enrich") /\ UNCHANGED req
         ELSE Return(r, Reply(201))
    /\ UNCHANGED <<storeVars, indexVars, imageVars, histVars, accountVars, idVars,
                   goroutines, tally, faults>>

\* middleware.IncPostCreated()
IncPostCreated(r) ==
    \/ Inc_Lock(r, "postsCreated")
    \/ Inc_Load(r, "postsCreated")
    \/ Inc_Store(r, "postsCreated")
    \/ Inc_Unlock(r, "postsCreated")

\* middleware.IncUserRegistered()
IncUserRegistered(r) ==
    \/ Inc_Lock(r, "usersRegistered")
    \/ Inc_Load(r, "usersRegistered")
    \/ Inc_Store(r, "usersRegistered")
    \/ Inc_Unlock(r, "usersRegistered")

(***************************************************************************)
(* CreatePost: POST /api/v1/blog/posts (admin or author).                  *)
(***************************************************************************)
\* status values of a CreatePost body; "" is no status
CreateStatusInputs == {"", "published", "archived"}

\* CreatePost bodies; json = FALSE is a body that is not JSON, an empty
\* title stands for a missing title or content
CreateBodies ==
    [json : {TRUE}, title : Titles \cup {<<>>}, status : CreateStatusInputs]
      \cup {[json |-> FALSE, title |-> <<>>, status |-> ""]}

\* if req.Status == "" { req.Status = "draft" }
DefaultStatus(status) == IF status = "" THEN "draft" ELSE status

\* the ids primitive.NewObjectID can still return: it has returned none of
\* them before, so no post, document or request has ever carried one
FreshIds == PostIds \ minted

\* requests between the start of CreatePost and its insert
Creating == {q \in Reqs : pc[q] \in {"cp_slug", "cp_insert"}}

\* Auth, RequireRole, body decode, required fields, status, generateSlug
CreatePost_RequireRole(r) ==
    /\ CanStart(r)
    /\ Cardinality(Creating) < Cardinality(FreshIds)
    /\ Begin(r)
    /\ \E uid \in Identities, body \in CreateBodies, ok \in StoreOutcomes :
         LET early == IF RequireRole(uid, ok) # 0 THEN RequireRole(uid, ok)
                      ELSE IF ~body.json THEN 400
                      ELSE IF body.title = <<>> THEN 400
                      ELSE IF DefaultStatus(body.status) \notin {"draft", "published"}
                        THEN 400
                      ELSE 0
         IN /\ Fault(IF uid = Nil THEN TRUE ELSE ok)
            /\ IF early # 0
                 THEN /\ Finish(r, Reply(early))
                      /\ req' = [req EXCEPT ![r] =
                                   [NoReq EXCEPT !.kind = "create", !.uid = uid]]
                 ELSE /\ Goto(r, "cp_slug")
                      /\ req' = [req EXCEPT ![r] =
                                   [NoReq EXCEPT !.kind = "create", !.uid = uid,
                                                 !.status = DefaultStatus(body.status),
                                                 !.base = generateSlug(body.title),
                                                 !.candidate = generateSlug(body.title),
                                                 !.counter = 1]]
    /\ UNCHANGED <<storeVars, processVars, imageVars, rvDone, tlStarted, tlLog>>

\* one turn of ensureUniqueSlug's loop with no post excluded; an error ends
\* the request
CreatePost_CountSlug(r) ==
    /\ pc[r] = "cp_slug"
    /\ \E ok \in StoreOutcomes :
         /\ Fault(ok)
         /\ IF ~ok
              THEN Return(r, Reply(500))
              ELSE IF CountSlug(req[r].candidate, Nil) = 0
              THEN /\ Goto(r, "cp_insert")
                   /\ req' = [req EXCEPT ![r].slug = req[r].candidate]
              ELSE /\ Goto(r, "cp_slug")
                   /\ req' = [req EXCEPT
                                ![r].counter = @ + 1,
                                ![r].candidate = Candidate(req[r].base,
                                                           req[r].counter + 1)]
    /\ UNCHANGED <<storeVars, processVars, imageVars, histVars>>

\* Posts().InsertOne(post): the collection has no unique index on slug
InsertPost(p, author, slug, status) ==
    [posts EXCEPT ![p] = NewPost(author, slug, status)]

\* Posts().InsertOne(post) with the id drawn by primitive.NewObjectID; the
\* id of a failed insert was shown to nobody and is not counted as used
CreatePost_Insert(r) ==
    /\ pc[r] = "cp_insert"
    /\ \E ok \in StoreOutcomes :
         /\ Fault(ok)
         /\ IF ~ok
              THEN /\ Return(r, Reply(500))
                   /\ UNCHANGED <<posts, minted>>
              ELSE \E p \in FreshIds :
                   /\ p = CHOOSE q \in FreshIds : TRUE
                   /\ posts' = InsertPost(p, req[r].uid, req[r].slug, req[r].status)
                   /\ minted' = minted \cup {p}
                   /\ Goto(r, "inc_lock")
                   /\ req' = [req EXCEPT ![r] = [Returned(@) EXCEPT !.post = p]]
    /\ UNCHANGED <<PostDependents, indexVars, metricVars, accountVars, imageVars,
                   histVars>>

\* enrichPostsWithAuthor: Find on profiles for the response, errors ignored
CreatePost_Enrich(r) ==
    /\ pc[r] = "cp_enrich"
    /\ \E ok \in StoreOutcomes : Fault(ok)
    /\ Finish(r, Reply(201))
    /\ UNCHANGED <<storeVars, processVars, imageVars, req, histVars>>

CreatePost(r) ==
    \/ CreatePost_RequireRole(r)
    \/ CreatePost_CountSlug(r)
    \/ CreatePost_Insert(r)
    \/ IncPostCreated(r)
    \/ CreatePost_Enrich(r)

(***************************************************************************)
(* Register: POST /api/v1/auth/register.                                   *)
(***************************************************************************)
\* addresses of Register bodies: one in use, one free, "" is none
Emails == {EmailOf("u1"), "new@x", ""}

\* lengths in bytes of the passwords of Register bodies
PasswordLens == {0, 5, 6}

\* Register bodies; json = FALSE is a body that is not JSON
RegisterBodies ==
    [json : {TRUE}, email : Emails, password : PasswordLens, name : {"", "N"}]
      \cup {[json |-> FALSE, email |-> "", password |-> 0, name |-> ""]}

\* the id primitive.NewObjectID gives the user of the n-th request
NewUserId(n) == "n" \o ToString(n)

\* FindOne(bson.M{"email": email}) finds a document
EmailTaken(email) == \E u \in users : u.email = email

\* body decode and validation
Register_Decode(r) ==
    /\ CanStart(r)
    /\ Begin(r)
    /\ \E body \in RegisterBodies :
         LET early == IF ~body.json THEN 400
                      ELSE IF body.email = "" \/ body.password = 0 \/ body.name = ""
                        THEN 400
                      ELSE IF body.password < 6 THEN 400
                      ELSE 0
         IN IF early # 0
              THEN /\ Finish(r, Reply(early))
                   /\ req' = [req EXCEPT ![r] = [NoReq EXCEPT !.kind = "register"]]
              ELSE /\ Goto(r, "rg_find")
                   /\ req' = [req EXCEPT ![r] =
                                [NoReq EXCEPT !.kind = "register",
                                              !.email = body.email,
                                              !.user = NewUserId(started + 1)]]
    /\ UNCHANGED <<storeVars, processVars, imageVars, faults, rvDone, tlStarted, tlLog>>

\* Users().FindOne by email: 409 when it decodes a user; a failed read is
\* taken for no user
Register_Find(r) ==
    /\ pc[r] = "rg_find"
    /\ \E ok \in StoreOutcomes :
         /\ Fault(ok)
         /\ IF ok /\ EmailTaken(req[r].email)
              THEN Return(r, Reply(409))
              ELSE /\ Goto(r, "rg_user")
                   /\ UNCHANGED req
    /\ UNCHANGED <<storeVars, processVars, imageVars, histVars>>

\* Users().InsertOne(user): the collection has no unique index on email
Register_InsertUser(r) ==
    /\ pc[r] = "rg_user"
    /\ \E ok \in StoreOutcomes :
         /\ Fault(ok)
         /\ IF ~ok
              THEN /\ Return(r, Reply(500))
                   /\ UNCHANGED users
              ELSE /\ users' = users \cup {[id |-> req[r].user, email |-> req[r].email]}
                   /\ Goto(r, "rg_profile")
                   /\ UNCHANGED req
    /\ UNCHANGED <<storeVars, indexVars, metricVars, idVars, registered, imageVars, histVars>>

\* Profiles().InsertOne(profile); the token that follows is always signed
Register_InsertProfile(r) ==
    /\ pc[r] = "rg_profile"
    /\ \E ok \in StoreOutcomes :
         /\ Fault(ok)
         /\ IF ~ok
              THEN /\ Goto(r, "rg_rollback")
                   /\ UNCHANGED <<req, resp, registered>>
              ELSE /\ registered' = registered \cup {[user_id |-> req[r].user]}
                   /\ Goto(r, "inc_lock")
                   /\ UNCHANGED req
    /\ UNCHANGED <<storeVars, indexVars, metricVars, idVars, users, imageVars, histVars>>

\* rollback: Users().DeleteOne by _id, its error ignored, then 500
Register_Rollback(r) ==
    /\ pc[r] = "rg_rollback"
    /\ \E ok \in StoreOutcomes :
         /\ Fault(ok)
         /\ users' = IF ok THEN {u \in users : u.id # req[r].user} ELSE users
    /\ Return(r, Reply(500))
    /\ UNCHANGED <<storeVars, indexVars, metricVars, idVars, registered, imageVars, histVars>>

Register(r) ==
    \/ Register_Decode(r)
    \/ Register_Find(r)
    \/ Register_InsertUser(r)
    \/ Register_InsertProfile(r)
    \/ Register_Rollback(r)
    \/ IncUserRegistered(r)

(***************************************************************************)
(* The transforms applied to one image, one at a time.                     *)
(***************************************************************************)
CanApply == img # NoImage /\ Len(trail) < MaxSteps

restVars == <<storeVars, processVars, uploadVars, pc, req, resp, histVars, faults>>

\* img = applyExifOrientation(bytes.NewReader(imgData), img)
ApplyExifOrientation ==
    /\ CanApply
    /\ "px" \in DOMAIN img
    /\ \E r \in Readers :
         /\ img' = applyExifOrientation(r, img)
         /\ trail' = Append(trail, Applied("applyExifOrientation", r, 0))
    /\ UNCHANGED <<source, restVars>>

\* resized := resizeImage(img, 256, 256)
ResizeImage ==
    /\ CanApply
    /\ \E size \in Targets :
         /\ img' = resizeImage(img, size, size)
         /\ trail' = Append(trail, Applied("resizeImage", NoReader, size))
    /\ UNCHANGED <<source, restVars>>

\* resized := resizeCover(img, 800)
ResizeCover ==
    /\ CanApply
    /\ \E maxWidth \in MaxWidths :
         /\ img' = resizeCover(img, maxWidth)
         /\ trail' = Append(trail, Applied("resizeCover", NoReader, maxWidth))
    /\ UNCHANGED <<source, restVars>>

\* a decoded image enters the pipeline
InitPipeline ==
    /\ InitEngagement
    /\ InitUploads
    /\ img \in Grids \cup Photos
    /\ source = img
    /\ trail = <<>>

NextPipeline == ApplyExifOrientation \/ ResizeImage \/ ResizeCover

SpecPipeline == InitPipeline /\ [][NextPipeline]_vars

(***************************************************************************)
(* UploadAvatar: POST /api/v1/profile/avatar (identity required).          *)
(***************************************************************************)
\* what is left of an upload handler's locals once it has returned: the
\* check that ended it, "none" when the upload was stored
Ended(locals, cause) ==
    [NoReq EXCEPT !.kind = locals.kind, !.uid = locals.uid, !.failed = cause]

\* the upload handler in slot r answers code and returns
End(r, code, cause) ==
    /\ Finish(r, Reply(code))
    /\ req' = [req EXCEPT ![r] = Ended(@, cause)]

\* a type validation that looks at the bytes
AvatarTypeAllowed_Sniffed(form) ==
    DetectContentType(form.data) \in {"image/jpeg", "image/png"}

\* contentType != "image/jpeg" && contentType != "image/png" on the header
\* of the file part
AvatarTypeAllowed(form) == form.declared \in {"image/jpeg", "image/png"}

\* the type validation of handler h saw this file part and let it pass or not
Verdict(h, form, accepted) ==
    [verdicts EXCEPT ![h] = @ \cup {[declared |-> form.declared, data |-> form.data,
                                     accepted |-> accepted]}]

\* the avatar that is written for the bytes data
Thumbnail(data) ==
    resizeImage(applyExifOrientation(ExifOf(data), Decode(data)), AvatarSize, AvatarSize)

\* from the identity test to jpeg.Encode: the part of the handler that
\* touches no collection
UploadAvatar_Process(r) ==
    /\ CanStart(r)
    /\ Begin(r)
    /\ \E uid \in Identities, form \in Forms :
         LET locals == [NoReq EXCEPT !.kind = "avatar", !.uid = uid]
             answer(code, cause) ==
                 /\ Finish(r, Reply(code))
                 /\ req' = [req EXCEPT ![r] = Ended(locals, cause)]
         IN IF uid = Nil
              THEN answer(401, "identity") /\ UNCHANGED verdicts
            ELSE IF ~Parsed(form)
              THEN answer(413, "size") /\ UNCHANGED verdicts
            ELSE IF form.field # "avatar"
              THEN answer(400, "field") /\ UNCHANGED verdicts
            ELSE /\ verdicts' = Verdict("UploadAvatar", form, AvatarTypeAllowed(form))
                 /\ IF ~AvatarTypeAllowed(form)
                      THEN answer(400, "type")
                    ELSE IF ~Decodable(form.data)
                      THEN answer(400, "decode")
                    ELSE IF ~Encodable(Thumbnail(form.data))
                      THEN answer(500, "encode")
                    ELSE /\ Goto(r, "ua_update")
                         /\ req' = [req EXCEPT ![r] =
                                      [locals EXCEPT !.data =
                                         Jpeg(Thumbnail(form.data), form.data)]]
    /\ UNCHANGED <<storeVars, processVars, pipeVars, images, profiles, faults,
                   rvDone, tlStarted, tlLog>>

\* Profiles().UpdateOne({user_id}, $set avatar): an error ends in 500, no
\* matching profile in 404
UploadAvatar_Update(r) ==
    /\ pc[r] = "ua_update"
    /\ \E ok \in StoreOutcomes :
         /\ Fault(ok)
         /\ IF ~ok
              THEN End(r, 500, "store") /\ UNCHANGED profiles
            ELSE IF ~profiles[req[r].uid].present
              THEN End(r, 404, "profile") /\ UNCHANGED profiles
            ELSE /\ profiles' = [profiles EXCEPT ![req[r].uid].avatar = req[r].data]
                 /\ Goto(r, "ua_fetch")
                 /\ UNCHANGED req
    /\ UNCHANGED <<storeVars, processVars, pipeVars, images, verdicts, histVars>>

\* Profiles().FindOne({user_id}) for the response body: its error is ignored
UploadAvatar_Fetch(r) ==
    /\ pc[r] = "ua_fetch"
    /\ \E ok \in StoreOutcomes :
         /\ Fault(ok)
         /\ End(r, 200, "none")
    /\ UNCHANGED <<storeVars, processVars, imageVars, histVars>>

UploadAvatar(r) ==
    \/ UploadAvatar_Process(r)
    \/ UploadAvatar_Update(r)
    \/ UploadAvatar_Fetch(r)

(***************************************************************************)
(* UpdateProfile: PUT /api/v1/profile.                                     *)
(***************************************************************************)
\* the avatar strings of UpdateProfile bodies; "" is no avatar
AvatarInputs == {"", "x"}

\* UpdateProfile bodies; json = FALSE is a body that is not JSON
ProfileBodies ==
    [json : {TRUE}, avatar : AvatarInputs] \cup {[json |-> FALSE, avatar |-> ""]}

\* an avatar taken as it is from a request body: a string that went
\* through no decoder and no resize
ClientAvatar == [w |-> 0, h |-> 0, of |-> <<"client", 0, 0>>]

\* $set of UpdateProfile: avatar is written only when the body carries one
SetAvatar(profile, avatar) ==
    IF avatar # "" THEN [profile EXCEPT !.avatar = ClientAvatar] ELSE profile

\* identity test, body decode, Profiles().UpdateOne({user_id}, $set): an
\* error ends in 500, no matching profile in 404
UpdateProfile_Update(r) ==
    /\ CanStart(r)
    /\ Begin(r)
    /\ \E uid \in Identities, body \in ProfileBodies, ok \in StoreOutcomes :
         LET locals == [NoReq EXCEPT !.kind = "profile", !.uid = uid]
         IN /\ Fault(IF uid = Nil \/ ~body.json THEN TRUE ELSE ok)
            /\ req' = [req EXCEPT ![r] = locals]
            /\ IF uid = Nil
                 THEN Finish(r, Reply(401)) /\ UNCHANGED profiles
               ELSE IF ~body.json
                 THEN Finish(r, Reply(400)) /\ UNCHANGED profiles
               ELSE IF ~ok
                 THEN Finish(r, Reply(500)) /\ UNCHANGED profiles
               ELSE IF ~profiles[uid].present
                 THEN Finish(r, Reply(404)) /\ UNCHANGED profiles
               ELSE /\ profiles' = [profiles EXCEPT ![uid] = SetAvatar(@, body.avatar)]
                    /\ Goto(r, "pf_fetch")
    /\ UNCHANGED <<storeVars, processVars, pipeVars, images, verdicts,
                   rvDone, tlStarted, tlLog>>

\* Profiles().FindOne({user_id}) for the response body: its error is
\* ignored; IncProfileUpdate raises a counter that is not among CounterNames
UpdateProfile_Fetch(r) ==
    /\ pc[r] = "pf_fetch"
    /\ \E ok \in StoreOutcomes : Fault(ok)
    /\ Finish(r, Reply(200))
    /\ UNCHANGED <<storeVars, processVars, imageVars, req, histVars>>

UpdateProfile(r) ==
    \/ UpdateProfile_Update(r)
    \/ UpdateProfile_Fetch(r)

(***************************************************************************)
(* UpdateUserRole: PUT /api/v1/users/{id}/role (admin).                    *)
(***************************************************************************)
\* the path values of UpdateUserRole: a user id, "nobody" for an object id
\* no profile carries, "bad" for a value that is not an object id
RoleTargets == Users \cup {"nobody", "bad"}

\* the roles of UpdateUserRole bodies; "x" is none of the three roles
RoleInputs == {"admin", "author", "user", "x"}

\* UpdateUserRole bodies; json = FALSE is a body that is not JSON
RoleBodies ==
    [json : {TRUE}, role : RoleInputs] \cup {[json |-> FALSE, role |-> "x"]}

\* outcome of Auth and RequireRole("admin") in front of the handler: 0 lets
\* the request through
RequireAdmin(uid, ok) ==
    IF uid = Nil THEN 401
    ELSE IF ~ok THEN 403
    ELSE IF ProfileRole(uid) # "admin" THEN 403
    ELSE 0

\* Auth, RequireRole, path value, body decode, role test
UpdateUserRole_RequireRole(r) ==
    /\ CanStart(r)
    /\ Begin(r)
    /\ \E uid \in Identities, target \in RoleTargets, body \in RoleBodies,
          ok \in StoreOutcomes :
         LET early == IF RequireAdmin(uid, ok) # 0 THEN RequireAdmin(uid, ok)
                      ELSE IF target = "bad" THEN 400
                      ELSE IF ~body.json THEN 400
                      ELSE IF body.role \notin {"admin", "author", "user"} THEN 400
                      ELSE 0
             locals == [NoReq EXCEPT !.kind = "role", !.uid = uid]
         IN /\ Fault(IF uid = Nil THEN TRUE ELSE ok)
            /\ IF early # 0
                 THEN /\ Finish(r, Reply(early))
                      /\ req' = [req EXCEPT ![r] = locals]
                 ELSE /\ Goto(r, "ur_update")
                      /\ req' = [req EXCEPT ![r] =
                                   [locals EXCEPT !.target = target,
                                                  !.role = body.role]]
    /\ UNCHANGED <<storeVars, processVars, imageVars, rvDone, tlStarted, tlLog>>

\* Profiles().UpdateOne({user_id: target}, $set role): an error ends in
\* 500, no matching profile in 404
UpdateUserRole_Update(r) ==
    /\ pc[r] = "ur_update"
    /\ \E ok \in StoreOutcomes :
         /\ Fault(ok)
         /\ IF ~ok
              THEN Return(r, Reply(500)) /\ UNCHANGED profiles
            ELSE IF req[r].target \notin Users \/ ~profiles[req[r].target].present
              THEN Return(r, Reply(404)) /\ UNCHANGED profiles
            ELSE /\ profiles' = [profiles EXCEPT ![req[r].target].role = req[r].role]
                 /\ Goto(r, "ur_profile")
                 /\ req' = [req EXCEPT ![r] = Returned(@)]
    /\ UNCHANGED <<storeVars, processVars, pipeVars, images, verdicts, histVars>>

\* Profiles().FindOne({user_id: target}) for the response: its error is
\* ignored
UpdateUserRole_FetchProfile(r) ==
    /\ pc[r] = "ur_profile"
    /\ \E ok \in StoreOutcomes : Fault(ok)
    /\ Goto(r, "ur_user")
    /\ UNCHANGED <<storeVars, processVars, imageVars, req, histVars>>

\* Users().FindOne({_id: target}) for the response: its error is ignored
UpdateUserRole_FetchUser(r) ==
    /\ pc[r] = "ur_user"
    /\ \E ok \in StoreOutcomes : Fault(ok)
    /\ Finish(r, Reply(200))
    /\ UNCHANGED <<storeVars, processVars, imageVars, req, histVars>>

UpdateUserRole(r) ==
    \/ UpdateUserRole_RequireRole(r)
    \/ UpdateUserRole_Update(r)
    \/ UpdateUserRole_FetchProfile(r)
    \/ UpdateUserRole_FetchUser(r)

(***************************************************************************)
(* UploadPostImage: POST /api/v1/blog/upload (admin or author).            *)
(***************************************************************************)
\* a type validation that looks at the header of the file part
PostImageTypeAllowed_Declared(form) ==
    form.declared \in {"image/jpeg", "image/png", "image/webp"}

\* detectedType != "image/jpeg" && != "image/png" && != "image/webp" on
\* http.DetectContentType(imgData)
PostImageTypeAllowed(form) ==
    DetectContentType(form.data) \in {"image/jpeg", "image/png", "image/webp"}

\* the post image that is stored for the bytes data
Cover(data) == resizeCover(Decode(data), CoverWidth)

\* Auth and RequireRole, then from the identity test to jpeg.Encode
UploadPostImage_Process(r) ==
    /\ CanStart(r)
    /\ Begin(r)
    /\ \E uid \in Identities, form \in Forms, ok \in StoreOutcomes :
         LET locals == [NoReq EXCEPT !.kind = "postimage", !.uid = uid]
             answer(code, cause) ==
                 /\ Finish(r, Reply(code))
                 /\ req' = [req EXCEPT ![r] = Ended(locals, cause)]
         IN /\ Fault(IF uid = Nil THEN TRUE ELSE ok)
            /\ IF RequireRole(uid, ok) # 0
                 THEN answer(RequireRole(uid, ok), "identity") /\ UNCHANGED verdicts
               ELSE IF ~Parsed(form)
                 THEN answer(413, "size") /\ UNCHANGED verdicts
               ELSE IF form.field # "image"
                 THEN answer(400, "field") /\ UNCHANGED verdicts
               ELSE /\ verdicts' = Verdict("UploadPostImage", form,
                                           PostImageTypeAllowed(form))
                    /\ IF ~PostImageTypeAllowed(form)
                         THEN answer(400, "type")
                       ELSE IF ~Decodable(form.data)
                         THEN answer(400, "decode")
                       ELSE IF ~Encodable(Cover(form.data))
                         THEN answer(500, "encode")
                       ELSE /\ Goto(r, "upi_insert")
                            /\ req' = [req EXCEPT ![r] =
                                         [locals EXCEPT !.data =
                                            Jpeg(Cover(form.data), form.data),
                                          !.cid = started + 1]]
    /\ UNCHANGED <<storeVars, processVars, pipeVars, images, profiles,
                   rvDone, tlStarted, tlLog>>

\* models.BlogImage with a fresh id (the id is drawn per request)
BlogImage(id, uploader, data) == [id |-> id, uploader_id |-> uploader, data |-> data]

\* an insert that stores the document although it reports an error
InsertImage_Partial(doc, ok) == images \cup {doc}

\* Images().InsertOne(imgDoc): the document is stored unless the call fails
InsertImage(doc, ok) == IF ok THEN images \cup {doc} ELSE images

\* Images().InsertOne(imgDoc), then the response with the image URL
UploadPostImage_Insert(r) ==
    /\ pc[r] = "upi_insert"
    /\ \E ok \in StoreOutcomes :
         /\ Fault(ok)
         /\ images' = InsertImage(BlogImage(req[r].cid, req[r].uid, req[r].data), ok)
         /\ IF ok
              THEN End(r, 200, "none")
              ELSE End(r, 500, "store")
    /\ UNCHANGED <<storeVars, processVars, pipeVars, profiles, verdicts, histVars>>

UploadPostImage(r) ==
    \/ UploadPostImage_Process(r)
    \/ UploadPostImage_Insert(r)

\* A store that an earlier run of the server left behind: u2 has viewed,
\* liked and commented post p1 (one tick of the clock ago), and the server
\* starts again on it.
SeededStore ==
    /\ InitMetrics
    /\ boot = "starting"
    /\ viewsUnique = FALSE
    /\ likesUnique = FALSE
    /\ posts = [p \in PostIds |->
                  CASE p = "p1" -> [NewPost("u1", "s1", "published") EXCEPT
                                      !.view_count = 1,
                                      !.unique_view_count = 1,
                                      !.like_count = 1,
                                      !.comment_count = 1]
                    [] p = "p2" -> NewPost("u2", "s2", "published")
                    [] p = "p3" -> NewPost("u1", "s3", "draft")
                    [] OTHER -> NoPost]
    /\ post_views = [p \in PostIds |-> [u \in Identities |->
                       IF p = "p1" /\ u = "u2" THEN 1 ELSE 0]]
    /\ viewed_at = [p \in PostIds |-> [u \in Identities |->
                      IF p = "p1" /\ u = "u2" THEN <<0>> ELSE <<>>]]
    /\ post_likes = [p \in PostIds |-> [u \in Identities |->
                       IF p = "p1" /\ u = "u2" THEN 1 ELSE 0]]
    /\ post_comments = [c \in CommentIds |->
                          IF c = 1
                            THEN [present |-> TRUE, post_id |-> "p1", user_id |-> "u2"]
                            ELSE NoDoc]
    /\ nextComment = 2
    /\ pc = [r \in Reqs |-> "idle"]
    /\ req = [r \in Reqs |-> NoReq]
    /\ resp = [r \in Reqs |-> NoResp]
    /\ faults = 0
    /\ alone = TRUE
    /\ rvDone = [p \in PostIds |-> [u \in Identities |-> 0]]
    /\ tlStarted = [p \in PostIds |-> [u \in Users |-> 0]]
    /\ tlLog = [p \in PostIds |-> [u \in Users |-> <<>>]]
    /\ minted = Minted(posts)

\* the seeded store with one request of the run already spent on it
SeededEngagement == SeededStore /\ started = 1

InitSeeded == SeededEngagement /\ InitImages

\* the seeded store before any request of the run
InitModeration == SeededStore /\ started = 0 /\ InitImages

\* The same store after u1 uploaded the 300 x 500 PNG as avatar and as
\* post image in that earlier run.
InitUploaded ==
    /\ SeededEngagement
    /\ img = NoImage
    /\ source = NoImage
    /\ trail = <<>>
    /\ LET data == Content("png", TRUE, 300, 500, NoReader)
       IN /\ images = {BlogImage(1, "u1", Jpeg(Cover(data), data))}
          /\ profiles = [u \in Users |->
                           IF u = "u1"
                             THEN [SeedProfile(u) EXCEPT !.avatar =
                                     Jpeg(Thumbnail(data), data)]
                             ELSE SeedProfile(u)]
    /\ verdicts = [h \in Uploaders |-> {}]

NextUpload ==
    \/ EnsureIndexes
    \/ \E r \in Reqs : UploadAvatar(r) \/ UploadPostImage(r) \/ UpdateProfile(r)

SpecUpload == InitUploaded /\ [][NextUpload]_vars

\* a store holding one published post with its markers and comment; the
\* other two post ids are free
InitAuthoring ==
    /\ InitImages
    /\ InitMetrics
    /\ boot = "starting"
    /\ viewsUnique = FALSE
    /\ likesUnique = FALSE
    /\ posts = [p \in PostIds |->
                  IF p = "p1"
                    THEN [NewPost("u1", "s1", "published") EXCEPT
                            !.view_count = 1,
                            !.unique_view_count = 1,
                            !.like_count = 1,
                            !.comment_count = 1]
                    ELSE NoPost]
    /\ post_views = [p \in PostIds |-> [u \in Identities |->
                       IF p = "p1" /\ u = "u2" THEN 1 ELSE 0]]
    /\ viewed_at = [p \in PostIds |-> [u \in Identities |->
                      IF p = "p1" /\ u = "u2" THEN <<0>> ELSE <<>>]]
    /\ post_likes = [p \in PostIds |-> [u \in Identities |->
                       IF p = "p1" /\ u = "u2" THEN 1 ELSE 0]]
    /\ post_comments = [c \in CommentIds |->
                          IF c = 1
                            THEN [present |-> TRUE, post_id |-> "p1", user_id |-> "u2"]
                            ELSE NoDoc]
    /\ nextComment = 2
    /\ pc = [r \in Reqs |-> "idle"]
    /\ req = [r \in Reqs |-> NoReq]
    /\ resp = [r \in Reqs |-> NoResp]
    /\ started = 1
    /\ faults = 0
    /\ alone = TRUE
    /\ rvDone = [p \in PostIds |-> [u \in Identities |-> 0]]
    /\ tlStarted = [p \in PostIds |-> [u \in Users |-> 0]]
    /\ tlLog = [p \in PostIds |-> [u \in Users |-> <<>>]]
    /\ minted = Minted(posts)

\* the engagement handlers next to the handlers that write post documents
NextAuthoring ==
    \/ EnsureIndexes
    \/ \E r \in Reqs :
          \/ RecordView(r)
          \/ ToggleLike(r)
          \/ CreateComment(r)
          \/ DeleteComment(r)
          \/ UpdatePost(r)
          \/ CreatePost(r)

SpecAuthoring == InitAuthoring /\ [][NextAuthoring]_vars

\* the handlers that write the slug of a post
NextSlugs ==
    \/ EnsureIndexes
    \/ \E r \in Reqs : CreatePost(r) \/ UpdatePost(r)

SpecSlugs == InitAuthoring /\ [][NextSlugs]_vars

NextPosts ==
    \/ EnsureIndexes
    \/ \E r \in Reqs :
          \/ RecordView(r)
          \/ ToggleLike(r)
          \/ CreateComment(r)
          \/ DeleteComment(r)
          \/ UpdatePost(r)
          \/ DeletePost(r)

SpecPosts == InitSeeded /\ [][NextPosts]_vars

NextView == EnsureIndexes \/ \E r \in Reqs : RecordView(r)

SpecView == Init /\ [][NextView]_vars

NextLike == EnsureIndexes \/ \E r \in Reqs : ToggleLike(r) \/ GetPostStats(r)

SpecLike == Init /\ [][NextLike]_vars

NextComment == EnsureIndexes \/ \E r \in Reqs : CreateComment(r) \/ DeleteComment(r)

\* the comment handlers on a store that holds a comment
SpecDiscussion == InitSeeded /\ [][NextComment]_vars

\* comment removal while an admin changes roles
NextModeration ==
    \/ EnsureIndexes
    \/ \E r \in Reqs : DeleteComment(r) \/ UpdateUserRole(r)

SpecModeration == InitModeration /\ [][NextModeration]_vars

SpecComment == Init /\ [][NextComment]_vars

NextCreate == EnsureIndexes \/ \E r \in Reqs : CreateComment(r)

SpecCreate == Init /\ [][NextCreate]_vars

NextMarkers == EnsureIndexes \/ \E r \in Reqs : RecordView(r) \/ ToggleLike(r)

SpecMarkers == Init /\ [][NextMarkers]_vars

Next ==
    \/ EnsureIndexes
    \/ \E r \in Reqs :
          \/ RecordView(r)
          \/ GetPostStats(r)
          \/ ToggleLike(r)
          \/ CreateComment(r)
          \/ DeleteComment(r)
          \/ UpdatePost(r)
          \/ DeletePost(r)
          \/ UploadAvatar(r)
          \/ UploadPostImage(r)
          \/ CreatePost(r)
          \/ Register(r)
          \/ UpdateProfile(r)
          \/ UpdateUserRole(r)
    \/ NextMetrics

\* registration alone
NextRegister ==
    \/ EnsureIndexes
    \/ \E r \in Reqs : Register(r)

SpecRegister == Init /\ [][NextRegister]_vars

SpecMetrics == Init /\ [][NextMetrics]_vars

Spec == Init /\ [][Next]_vars
(***************************************************************************)
(* Properties.                                                             *)
(***************************************************************************)
Quiet == \A r \in Reqs : ~InFlight(r)

RECURSIVE SumOver(_, _)
SumOver(f, S) ==
    IF S = {} THEN 0
    ELSE LET x == CHOOSE y \in S : TRUE IN f[x] + SumOver(f, S \ {x})

\* RecordView requests of post p that are past their view_count increment
PastViewCount(p) ==
    {r \in Reqs : req[r].post = p /\ pc[r] \in {"rv_match", "rv_insert", "rv_unique"}}

\* C1: when no store operation has failed and the N >= 1 RecordView requests
\* of one user on one post (the only views of that post) have all been
\* answered, whatever their interleaving, view_count is N and
\* unique_view_count is 1.
C1_ConcurrentViewsCountOnce ==
    \A p \in PostIds, u \in Users :
        ( /\ faults = 0
          /\ Quiet
          /\ rvDone[p][u] >= 1
          /\ \A v \in Identities \ {u} : rvDone[p][v] = 0 )
        => /\ posts[p].view_count = rvDone[p][u]
           /\ posts[p].unique_view_count = 1

\* two views of one user on one post were answered, one of them having lost
\* the race for the marker between the two phases of its upsert
C1_Witness ==
    /\ faults = 0
    /\ Quiet
    /\ rvDone["p1"]["u1"] = 2
    /\ \E r \in Reqs : req[r].kind = "view" /\ req[r].raced
    /\ posts["p1"].view_count = 2
    /\ posts["p1"].unique_view_count = 1

\* C5: unique_view_count <= view_count for every post in every reachable
\* state, also after a RecordView whose marker upsert or unique increment
\* never happened.
C5_UniqueAtMostViews ==
    \A p \in PostIds : posts[p].unique_view_count <= posts[p].view_count

\* an identified view was answered although its marker upsert failed: the raw
\* counter moved, no marker and no unique view were recorded
C5_Witness ==
    \E r \in Reqs :
        /\ pc[r] = "done"
        /\ req[r].kind = "view"
        /\ req[r].uid # Nil
        /\ resp[r].code = 200
        /\ faults > 0
        /\ post_views[req[r].post][req[r].uid] = 0
        /\ posts[req[r].post].view_count = 1
        /\ posts[req[r].post].unique_view_count = 0

\* a step taken by a RecordView request that carries no identity
AnonymousViewStep(r) ==
    /\ pc'[r] # pc[r]
    /\ req'[r].kind = "view"
    /\ req'[r].uid = Nil

\* C10: every RecordView that resolved a published post and was answered 200
\* has incremented that post's view_count exactly once, with or without an
\* identity; a RecordView without an identity creates no marker and leaves
\* unique_view_count, like_count and comment_count as they were.
C10_EveryViewCounts ==
    /\ [](\A p \in PostIds :
            /\ posts[p].view_count =
                 SumOver(rvDone[p], Identities) + Cardinality(PastViewCount(p))
            /\ post_views[p][Nil] = 0)
    /\ [][\A r \in Reqs : AnonymousViewStep(r) =>
            /\ post_views' = post_views
            /\ \A p \in PostIds :
                 /\ posts'[p].unique_view_count = posts[p].unique_view_count
                 /\ posts'[p].like_count = posts[p].like_count
                 /\ posts'[p].comment_count = posts[p].comment_count]_vars

\* an anonymous and an identified view of the same post were both answered
C10_Witness ==
    /\ Quiet
    /\ rvDone["p1"][Nil] = 1
    /\ rvDone["p1"]["u2"] = 1
    /\ posts["p1"].view_count = 2
    /\ posts["p1"].unique_view_count = 1
    /\ post_views["p1"]["u2"] = 1
\* C2: like_count of every post is >= 0 in every reachable state, under any
\* interleaving of ToggleLike requests.  Stated for the states reached
\* without any failed store operation (both indexes in place), which the
\* claim covers, so that a violation owes nothing to a failure.
C2_LikeCountNonNegative ==
    faults = 0 => \A p \in PostIds : posts[p].like_count >= 0

\* the k-th toggle of a pair that starts out not liked reports liked exactly
\* when k is odd
Alternates(log) ==
    \A k \in 1..Len(log) : log[k] = (IF k % 2 = 1 THEN "true" ELSE "false")

\* C3: when requests ran one at a time, no store operation failed and only
\* user u toggled post p (starting from no marker and like_count 0), the
\* toggles of (p, u) report liked = true, false, true, ... and after every
\* even number of toggles the marker is absent and like_count is back at its
\* value before the first toggle.
C3_ToggleCycle ==
    \A p \in PostIds, u \in Users :
        ( /\ alone
          /\ faults = 0
          /\ Quiet
          /\ \A v \in Users \ {u} : tlStarted[p][v] = 0 )
        => /\ Len(tlLog[p][u]) = tlStarted[p][u]
           /\ Alternates(tlLog[p][u])
           /\ (Len(tlLog[p][u]) % 2 = 0
                 => post_likes[p][u] = 0 /\ posts[p].like_count = 0)

\* like, unlike, like of one user on one post, one request at a time
C3_Witness ==
    /\ alone
    /\ faults = 0
    /\ Quiet
    /\ tlLog["p1"]["u2"] = <<"true", "false", "true">>
    /\ post_likes["p1"]["u2"] = 1
    /\ posts["p1"].like_count = 1

\* finished ToggleLike requests of (p, u) whose delete removed nothing
ToggledOn(p, u) ==
    {r \in Reqs : /\ pc[r] = "done"
                  /\ req[r].kind = "like"
                  /\ req[r].post = p
                  /\ req[r].uid = u
                  /\ req[r].deleted = 0}

\* C4: when no store operation has failed and the only two ToggleLike
\* requests on post p, both by user u, both removed nothing with their
\* delete and both went on to insert, exactly one insert succeeded; the
\* other request was answered 500 without a liked value and did not
\* increment, so there is one marker and like_count has grown by one.
C4_DoubleInsertOneWins ==
    \A p \in PostIds, u \in Users :
        ( /\ faults = 0
          /\ tlStarted[p][u] = 2
          /\ \A v \in Users \ {u} : tlStarted[p][v] = 0
          /\ Cardinality(ToggledOn(p, u)) = 2 )
        => /\ Cardinality({r \in ToggledOn(p, u) : req[r].inserted}) = 1
           /\ \A r \in ToggledOn(p, u) :
                IF req[r].inserted
                  THEN resp[r].code = 200 /\ resp[r].liked = "true"
                  ELSE resp[r].code = 500 /\ resp[r].liked = "none"
           /\ post_likes[p][u] = 1
           /\ posts[p].like_count = 1

\* two ToggleLike requests of one user raced on the insert and both were answered
C4_Witness ==
    /\ faults = 0
    /\ tlStarted["p1"]["u1"] = 2
    /\ Cardinality(ToggledOn("p1", "u1")) = 2
    /\ \E r \in ToggledOn("p1", "u1") : resp[r].code = 500
    /\ post_likes["p1"]["u1"] = 1

\* the step with which GetPostStats resolves the post in slot r
StatsResolveStep(r) ==
    /\ CanStart(r)
    /\ started' # started
    /\ req'[r].kind = "stats"
    /\ req'[r].post # "none"

\* the step with which GetPostStats reads the caller's marker in slot r
StatsCountStep(r) ==
    /\ pc[r] = "gs_count"
    /\ pc'[r] = "done"

SameCounters(a, b) ==
    /\ a.view_count = b.view_count
    /\ a.unique_view_count = b.unique_view_count
    /\ a.like_count = b.like_count
    /\ a.comment_count = b.comment_count

\* C8: GetPostStats without an identity always reports liked = false; with an
\* identity, when the marker read succeeds, it reports liked = true exactly
\* when a like marker of (post, caller) exists at that read; the counters
\* reported are the ones stored in the post when it was read, and no step of
\* GetPostStats changes the store.
C8_StatsLikedOnlyForCaller ==
    /\ [](\A r \in Reqs :
            (pc[r] = "done" /\ req[r].kind = "stats" /\ resp[r].code = 200
               /\ req[r].uid = Nil)
            => resp[r].liked = "false")
    /\ [][\A r \in Reqs :
            /\ StatsResolveStep(r) =>
                 /\ SameCounters(resp'[r], posts[req'[r].post])
                 /\ UNCHANGED <<storeVars, processVars>>
            /\ StatsCountStep(r) =>
                 /\ resp'[r].code = 200
                 /\ SameCounters(resp'[r], resp[r])
                 /\ (faults' = faults =>
                       (resp'[r].liked = "true"
                          <=> post_likes[req[r].post][req[r].uid] > 0))
                 /\ resp'[r].liked \in {"true", "false"}
                 /\ UNCHANGED <<storeVars, processVars>>]_vars

\* stats of a post somebody liked, answered to an anonymous caller (liked =
\* false) and to the user who liked it (liked = true)
C8_Witness ==
    \E r, q \in Reqs :
        /\ pc[r] = "done" /\ req[r].kind = "stats" /\ resp[r].code = 200
        /\ req[r].uid = Nil
        /\ resp[r].liked = "false"
        /\ resp[r].like_count = 1
        /\ pc[q] = "done" /\ req[q].kind = "stats" /\ resp[q].code = 200
        /\ req[q].uid # Nil
        /\ resp[q].liked = "true"
        /\ post_likes[req[q].post][req[q].uid] = 1
        /\ req[q].post = req[r].post
\* C6: comment_count of every post is >= 0 in every reachable state, under
\* any interleaving of CreateComment and DeleteComment requests.  Stated for
\* the states reached without any failed store operation, which the claim
\* covers, so that a violation owes nothing to a failure.
C6_CommentCountNonNegative ==
    faults = 0 => \A p \in PostIds : posts[p].comment_count >= 0

\* who may delete a comment written by commentUser on post p, with the
\* roles as the profiles hold them
MayDelete(uid, commentUser, p) ==
    \/ uid = commentUser
    \/ uid = posts[p].author_id
    \/ ProfileRole(uid) = "admin"

\* the step in which DeleteComment request r, having found its comment, is
\* let through to the delete
Permitted(r) ==
    /\ req'[r].kind = "uncomment"
    /\ pc[r] \in {"dc_find", "dc_role"}
    /\ pc'[r] = "dc_delete"

\* the step in which DeleteComment request r is answered 403
Refused(r) ==
    /\ req'[r].kind = "uncomment"
    /\ pc[r] # "done"
    /\ pc'[r] = "done"
    /\ resp'[r].code = 403

\* C7: a DeleteComment that found its comment is let through to the delete
\* only if, at that step, the requester wrote the comment, wrote the post or
\* holds the admin role; it is answered 403 only by the role test, and (when
\* no store operation fails in that step) only if the requester is none of
\* the three; the step that answers 403 leaves the comments and the posts,
\* hence comment_count, as they were. Roles are read from the profiles when
\* the request is decided, so a role set by UpdateUserRole counts from then on.
C7_DeleteCommentAuthorization ==
    [][\A r \in Reqs :
         /\ Permitted(r) => MayDelete(req'[r].uid, req'[r].cuser, req'[r].post)
         /\ Refused(r) =>
               /\ pc[r] = "dc_role"
               /\ UNCHANGED <<posts, post_comments>>
               /\ faults' = faults =>
                     ~MayDelete(req[r].uid, req[r].cuser, req[r].post)]_vars

\* the admin u3 took the admin role from itself and was then refused on a
\* comment of u2 under a post of u1, while u1, the post's author, who
\* neither wrote the comment nor is an admin, deleted it
C7_Witness ==
    \E r, q \in Reqs :
        /\ faults = 0
        /\ profiles["u3"].role = "user"
        /\ pc[r] = "done" /\ req[r].kind = "uncomment" /\ resp[r].code = 200
        /\ req[r].uid = "u1" /\ req[r].post = "p1"
        /\ posts["p1"].author_id = "u1"
        /\ ProfileRole("u1") # "admin"
        /\ pc[q] = "done" /\ req[q].kind = "uncomment" /\ resp[q].code = 403
        /\ req[q].uid = "u3" /\ req[q].post = "p1"

\* C9: in every reachable state there is at most one view marker and at most
\* one like marker per (post, user), under any interleaving of RecordView and
\* ToggleLike requests.
C9_OneMarkerPerPair ==
    \A p \in PostIds, u \in Users :
        /\ post_views[p][u] <= 1
        /\ post_likes[p][u] <= 1

\* the view markers of (p, u) and their viewed_at are all still there after
\* the step
MarkersKept(p, u) ==
    /\ post_views'[p][u] >= post_views[p][u]
    /\ Len(viewed_at'[p][u]) >= Len(viewed_at[p][u])
    /\ \A k \in 1..Len(viewed_at[p][u]) : viewed_at'[p][u][k] = viewed_at[p][u][k]

\* C11: a view marker of (post, user), once it exists, is there in every
\* later state with its viewed_at: no step of RecordView (a further view by
\* the same user included), ToggleLike, CreateComment, DeleteComment,
\* UpdatePost or DeletePost removes or rewrites it; every marker document
\* carries a viewed_at.
C11_ViewMarkerPermanent ==
    /\ [](\A p \in PostIds, u \in Identities :
            Len(viewed_at[p][u]) = post_views[p][u])
    /\ [][\A p \in PostIds, u \in Identities : MarkersKept(p, u)]_vars

\* u2, whose marker on p1 dates from before, viewed p1 again and the post was
\* then deleted: the marker is there with its first viewed_at
C11_Witness ==
    /\ \E r \in Reqs :
         /\ pc[r] = "done" /\ req[r].kind = "view" /\ req[r].uid = "u2"
         /\ req[r].post = "p1" /\ resp[r].code = 200
    /\ \E r \in Reqs :
         /\ pc[r] = "done" /\ req[r].kind = "delpost" /\ req[r].post = "p1"
         /\ resp[r].code = 200
    /\ posts["p1"] = NoPost
    /\ post_views["p1"]["u2"] = 1
    /\ viewed_at["p1"]["u2"] = <<0>>

\* a step taken by the DeletePost request in slot r
DeletePostStep(r) ==
    /\ pc'[r] # pc[r]
    /\ req'[r].kind = "delpost"

\* C12: a step of DeletePost changes nothing but the post it removes: the
\* view markers, like markers and comments, those that reference the removed
\* post included, are all there unchanged after the deletion, and no other
\* post is touched.
C12_DeletePostNoCascade ==
    [][\A r \in Reqs : DeletePostStep(r) =>
          /\ UNCHANGED <<post_views, viewed_at, post_likes, post_comments>>
          /\ \A p \in PostIds :
               posts'[p] # posts[p] =>
                 /\ pc[r] = "dp_delete"
                 /\ p = req[r].post
                 /\ posts'[p] = NoPost]_vars

\* p1 was deleted while a view marker, a like marker and a comment referenced
\* it; the three are still there
C12_Witness ==
    /\ \E r \in Reqs :
         /\ pc[r] = "done" /\ req[r].kind = "delpost" /\ req[r].post = "p1"
         /\ resp[r].code = 200
    /\ posts["p1"] = NoPost
    /\ post_views["p1"]["u2"] = 1
    /\ viewed_at["p1"]["u2"] = <<0>>
    /\ post_likes["p1"]["u2"] = 1
    /\ post_comments[1] = [present |-> TRUE, post_id |-> "p1", user_id |-> "u2"]
    /\ faults = 0

\* the step with which a CreateComment request that decoded its body starts
\* in slot r, no store operation failing
CommentResolveStep(r) ==
    /\ CanStart(r)
    /\ started' # started
    /\ req'[r].kind = "comment"
    /\ req'[r].content # "none"
    /\ faults' = faults

\* C13: a CreateComment of an identified user is accepted exactly when its
\* content has between 1 and 2000 characters and the slug resolves to a
\* published post: it is rejected with 400 only for a content outside that
\* range and with 404 only when no published post carries the slug, and a
\* rejected request leaves the comments and the posts as they were.
C13_CreateCommentAccepted ==
    [][\A r \in Reqs : CommentResolveStep(r) =>
          /\ pc'[r] = "cc_insert" =>
               /\ req'[r].content = "in range"
               /\ req'[r].post \in PublishedBySlug(req'[r].ref)
          /\ (pc'[r] = "done" /\ resp'[r].code = 400) =>
               req'[r].content = "out of range"
          /\ (pc'[r] = "done" /\ resp'[r].code = 404) =>
               PublishedBySlug(req'[r].ref) = {}
          /\ pc'[r] = "done" =>
               /\ resp'[r].code \in {400, 404}
               /\ UNCHANGED <<posts, post_comments>>]_vars

\* the comments stored for post p
CommentsOf(p) ==
    {c \in CommentIds : post_comments[c].present /\ post_comments[c].post_id = p}

\* CreateComment requests on post p that have inserted and not yet incremented
BetweenWrites(p) == {r \in Reqs : pc[r] = "cc_inc" /\ req[r].post = p}

\* C14: with CreateComment alone, comment_count changes only by the +1 of a
\* request that has inserted its comment, once per request; a request whose
\* increment is lost still goes on to its response body and answers 201,
\* without another write to the post, and the post stays one comment short,
\* nothing making up for it: comment_count never exceeds the number of
\* comments, and is short by exactly the requests between their two writes
\* when no store operation failed, by at most one more per failed operation.
C14_InsertThenIncrement ==
    /\ [](\A p \in PostIds :
            /\ posts[p].comment_count <= Cardinality(CommentsOf(p))
            /\ Cardinality(CommentsOf(p)) <=
                 posts[p].comment_count + Cardinality(BetweenWrites(p)) + faults
            /\ faults = 0 =>
                 Cardinality(CommentsOf(p)) =
                   posts[p].comment_count + Cardinality(BetweenWrites(p)))
    /\ [][\A p \in PostIds :
            posts'[p].comment_count # posts[p].comment_count =>
              \E r \in BetweenWrites(p) :
                 /\ post_comments[req[r].cid].present
                 /\ posts'[p].comment_count = posts[p].comment_count + 1
                 /\ pc'[r] = "cc_enrich"]_vars
    /\ [][\A r \in Reqs :
            /\ pc[r] = "cc_inc" =>
                 (pc'[r] = "cc_inc"
                    \/ (pc'[r] = "cc_enrich"
                          /\ posts'[req[r].post].comment_count =
                               posts[req[r].post].comment_count
                                 + (IF faults' = faults THEN 1 ELSE 0)))
            /\ pc[r] = "cc_enrich" =>
                 (pc'[r] = "cc_enrich"
                    \/ (pc'[r] = "done" /\ resp'[r].code = 201
                          /\ posts'[req[r].post] = posts[req[r].post]))]_vars

\* a CreateComment whose increment was lost has answered: one comment is
\* stored, comment_count is 0 and no request is left to raise it
C14_Witness ==
    /\ Quiet
    /\ faults = 1
    /\ \E r \in Reqs :
         /\ pc[r] = "done" /\ req[r].kind = "comment" /\ resp[r].code = 201
         /\ req[r].post = "p1"
    /\ Cardinality(CommentsOf("p1")) = 1
    /\ posts["p1"].comment_count = 0
    /\ started = MaxRequests
(***************************************************************************)
(* Orientation correction and the two resizers.                            *)
(***************************************************************************)
\* the tag whose correction undoes the correction of tag t
InverseTag(t) ==
    CASE t = 6 -> 8
      [] t = 8 -> 6
      [] OTHER -> t

\* the k-th transform applied was the correction of an orientation tag
Corrected(k) ==
    /\ trail[k].op = "applyExifOrientation"
    /\ trail[k].exif = "tagged"

\* C15: for every orientation tag 1..8 and every grid, the correction of the
\* tag followed by the correction of its inverse tag (6 and 8 undo each
\* other, every other tag undoes itself) gives a grid of the original width
\* and height that holds the original pixel at every coordinate.
C15_OrientationRoundTrip ==
    (/\ Len(trail) = 2
     /\ Corrected(1)
     /\ Corrected(2)
     /\ trail[1].orient \in 1..8
     /\ trail[2].orient = InverseTag(trail[1].orient))
    => /\ img.w = source.w
       /\ img.h = source.h
       /\ \A c \in Coords(source.w, source.h) : img.px[c] = source.px[c]

\* C15 witness: a 2 x 3 grid of pairwise different pixels was corrected for
\* tag 6 and then for tag 8, and is the decoded grid again.
C15_Witness ==
    /\ source = LabelledGrid(2, 3)
    /\ Len(trail) = 2
    /\ Corrected(1)
    /\ Corrected(2)
    /\ trail[1].orient = 6
    /\ trail[2].orient = 8
    /\ img = source

\* the transforms of the table, each given by the source pixel that every
\* pixel of the result shows: the mirror image (left and right exchanged)
Mirrored(g) ==
    [w |-> g.w, h |-> g.h,
     px |-> [d \in Coords(g.w, g.h) |-> g.px[<<g.w - 1 - d[1], d[2]>>]]]

\* top and bottom exchanged
UpsideDown(g) ==
    [w |-> g.w, h |-> g.h,
     px |-> [d \in Coords(g.w, g.h) |-> g.px[<<d[1], g.h - 1 - d[2]>>]]]

\* turned by 180 degrees
HalfTurn(g) ==
    [w |-> g.w, h |-> g.h,
     px |-> [d \in Coords(g.w, g.h) |-> g.px[<<g.w - 1 - d[1], g.h - 1 - d[2]>>]]]

\* turned by 90 degrees clockwise: the left column becomes the top row
QuarterTurnCW(g) ==
    [w |-> g.h, h |-> g.w,
     px |-> [d \in Coords(g.h, g.w) |-> g.px[<<d[2], g.h - 1 - d[1]>>]]]

\* turned by 90 degrees counter-clockwise: the right column becomes the top row
QuarterTurnCCW(g) ==
    [w |-> g.h, h |-> g.w,
     px |-> [d \in Coords(g.h, g.w) |-> g.px[<<g.w - 1 - d[2], d[1]>>]]]

TableTransform(t, g) ==
    CASE t = 1 -> g
      [] t = 2 -> Mirrored(g)
      [] t = 3 -> HalfTurn(g)
      [] t = 4 -> UpsideDown(g)
      [] t = 5 -> QuarterTurnCCW(Mirrored(g))
      [] t = 6 -> QuarterTurnCW(g)
      [] t = 7 -> QuarterTurnCW(Mirrored(g))
      [] t = 8 -> QuarterTurnCCW(g)

\* the pixels of g are pairwise different
Distinct(g) ==
    \A c, d \in Coords(g.w, g.h) : g.px[c] = g.px[d] => c = d

\* every pixel of g is shown by exactly one pixel of out
PlacedOnce(g, out) ==
    /\ Cardinality(Coords(out.w, out.h)) = Cardinality(Coords(g.w, g.h))
    /\ \A c \in Coords(g.w, g.h) :
         Cardinality({d \in Coords(out.w, out.h) : out.px[d] = g.px[c]}) = 1

\* this step applies applyExifOrientation
OrientationStep ==
    /\ Len(trail') = Len(trail) + 1
    /\ trail'[Len(trail')].op = "applyExifOrientation"

\* C16: applyExifOrientation on a w x h grid gives the transform of the table
\* for the tag (1 identity, 2 mirror, 3 half turn, 4 upside down, 5 mirror
\* then quarter turn counter-clockwise, 6 quarter turn clockwise, 7 mirror
\* then quarter turn clockwise, 8 quarter turn counter-clockwise); the result
\* is w x h for tags 1-4 and h x w for tags 5-8 and shows every source pixel
\* exactly once; without EXIF data, without the tag, or with a tag value
\* outside 1..8 the grid is returned unchanged.
C16_OrientationTable ==
    [][OrientationStep =>
         LET e == trail'[Len(trail')]
         IN IF e.exif = "tagged" /\ e.orient \in 1..8
              THEN /\ img' = TableTransform(e.orient, img)
                   /\ img'.w = (IF e.orient \in 1..4 THEN img.w ELSE img.h)
                   /\ img'.h = (IF e.orient \in 1..4 THEN img.h ELSE img.w)
                   /\ Distinct(img) => PlacedOnce(img, img')
              ELSE img' = img]_vars

\* C16 witness: a 2 x 3 grid of pairwise different pixels was corrected for
\* tag 7 and is now 3 x 2, its top left pixel the bottom right one of the
\* decoded grid.
C16_Witness ==
    /\ source = LabelledGrid(2, 3)
    /\ Len(trail) = 1
    /\ Corrected(1)
    /\ trail[1].orient = 7
    /\ img.w = 3
    /\ img.h = 2
    /\ img.px[<<0, 0>>] = source.px[<<1, 2>>]
    /\ img.px[<<2, 1>>] = source.px[<<0, 0>>]

Min(a, b) == IF a < b THEN a ELSE b

Abs(a) == IF a < 0 THEN 0 - a ELSE a

\* this step applies resizeImage with equal width and height
ResizeImageStep ==
    /\ Len(trail') = Len(trail) + 1
    /\ trail'[Len(trail')].op = "resizeImage"

\* C17: for a source of width w >= 1 and height h >= 1, resizeImage(img, T, T)
\* reads a square of side min(w, h) that lies inside the source, with the two
\* margins it leaves in each dimension differing by at most one pixel, and
\* returns an image of exactly T x T.
C17_SquareCrop ==
    [][(ResizeImageStep /\ img.w >= 1 /\ img.h >= 1) =>
         LET T == trail'[Len(trail')].size
             sr == img'.sr
         IN /\ sr.x1 - sr.x0 = Min(img.w, img.h)
            /\ sr.y1 - sr.y0 = Min(img.w, img.h)
            /\ 0 <= sr.x0 /\ sr.x1 <= img.w
            /\ 0 <= sr.y0 /\ sr.y1 <= img.h
            /\ Abs(sr.x0 - (img.w - sr.x1)) <= 1
            /\ Abs(sr.y0 - (img.h - sr.y1)) <= 1
            /\ img'.w = T
            /\ img'.h = T]_vars

\* C17 witness: a 300 x 500 source was resized to the avatar size: the
\* result is 256 x 256, read from rows 100 to 399 of the source.
C17_Witness ==
    /\ source = [w |-> 300, h |-> 500]
    /\ Len(trail) = 1
    /\ trail[1].op = "resizeImage"
    /\ trail[1].size = AvatarSize
    /\ img.w = 256
    /\ img.h = 256
    /\ img.sr = Rect(0, 100, 300, 400)

\* n / d rounded to the nearest integer, a half rounded up (n >= 0, d > 0)
Round(n, d) == (2 * n + d) \div (2 * d)

\* this step applies resizeCover
ResizeCoverStep ==
    /\ Len(trail') = Len(trail) + 1
    /\ trail'[Len(trail')].op = "resizeCover"

\* C18: resizeCover(img, maxWidth) returns the source unchanged when its
\* width is at most maxWidth; otherwise the result is maxWidth wide and
\* round(sourceHeight * maxWidth / sourceWidth) high.
C18_CoverHeightRounded ==
    [][(ResizeCoverStep /\ img.w >= 1 /\ img.h >= 1) =>
         LET maxWidth == trail'[Len(trail')].size
         IN IF img.w <= maxWidth
              THEN img' = img
              ELSE /\ img'.w = maxWidth
                   /\ img'.h = Round(img.h * maxWidth, img.w)]_vars

(***************************************************************************)
(* Uploads.                                                                *)
(***************************************************************************)
\* the upload request in slot r returns in this step
UploadEnds(r) ==
    /\ pc[r] # "done"
    /\ pc'[r] = "done"
    /\ req'[r].kind \in {"avatar", "postimage"}

\* the response code of each check that ends an upload
FailureCode(cause) ==
    CASE cause = "size" -> {413}
      [] cause = "field" -> {400}
      [] cause = "type" -> {400}
      [] cause = "decode" -> {400}
      [] cause = "encode" -> {500}
      [] cause = "store" -> {500}
      [] cause = "profile" -> {404}
      [] cause = "identity" -> {401, 403}
      [] OTHER -> {200}

\* C19: in both upload handlers a request that ends in a failure (body too
\* large 413, no file field 400, type not allowed 400, bytes not decodable
\* 400, encode or store failure 500) leaves the images collection and every
\* profile's avatar as they were: a document is inserted only by the step
\* that answers 200, an avatar is set by an upload only in a step after
\* which the request can only answer 200 (the one other writer of avatars is
\* the update of UpdateProfile), and the step in which an upload fails
\* changes neither collection.
C19_FailedUploadWritesNothing ==
    /\ [][images' # images =>
             \E r \in Reqs : /\ pc[r] = "upi_insert"
                             /\ UploadEnds(r)
                             /\ resp'[r].code = 200]_vars
    /\ [][profiles' # profiles =>
             \E r \in Reqs : \/ pc[r] = "ua_update" /\ pc'[r] = "ua_fetch"
                             \/ pc[r] # "pf_fetch" /\ pc'[r] = "pf_fetch"]_vars
    /\ [][\A r \in Reqs :
             (pc[r] = "ua_fetch" /\ pc'[r] # "ua_fetch") =>
                (UploadEnds(r) /\ resp'[r].code = 200)]_vars
    /\ [][\A r \in Reqs :
             UploadEnds(r) =>
                /\ resp'[r].code \in FailureCode(req'[r].failed)
                /\ resp'[r].code = 200 <=> req'[r].failed = "none"
                /\ resp'[r].code # 200 =>
                      (images' = images /\ profiles' = profiles)]_vars

\* C19 witness: the avatar upload of u3 was answered 500 because the update
\* of the profile failed; u3 has no avatar and the images collection holds
\* the one document it started with.
C19_Witness ==
    /\ \E r \in Reqs :
         /\ pc[r] = "done"
         /\ req[r].kind = "avatar"
         /\ req[r].uid = "u3"
         /\ req[r].failed = "store"
         /\ resp[r].code = 500
    /\ profiles["u3"].avatar = NoAvatar
    /\ Cardinality(images) = 1

\* the types the two validations let pass, by what the claim says each looks at
SniffedAllowed(data) == data.sig \in {"jpeg", "png", "webp"}

DeclaredAllowed(declared) == declared \in {"image/jpeg", "image/png"}

\* C20: the type validation of UploadPostImage depends on the bytes of the
\* file only: requests with the same bytes and different declared
\* Content-Type headers get the same outcome, accepted exactly when the
\* bytes are sniffed as JPEG, PNG or WebP; the type validation of
\* UploadAvatar depends on the declared header of the file part only,
\* accepted exactly for image/jpeg and image/png.
C20_TypeValidationInputs ==
    /\ \A a, b \in verdicts["UploadPostImage"] :
         a.data = b.data => a.accepted = b.accepted
    /\ \A a \in verdicts["UploadPostImage"] :
         a.accepted <=> SniffedAllowed(a.data)
    /\ \A a, b \in verdicts["UploadAvatar"] :
         a.declared = b.declared => a.accepted = b.accepted
    /\ \A a \in verdicts["UploadAvatar"] :
         a.accepted <=> DeclaredAllowed(a.declared)

\* C20 witness: UploadPostImage validated the same WebP bytes twice, once
\* declared as text/plain and once as image/png, and accepted both.
C20_Witness ==
    \E a, b \in verdicts["UploadPostImage"] :
        /\ a.data = b.data
        /\ a.data.sig = "webp"
        /\ a.declared = "text/plain"
        /\ b.declared = "image/png"
        /\ a.accepted
        /\ b.accepted

(***************************************************************************)
(* Store failures, startup, counters.                                      *)
(***************************************************************************)
\* a store operation that a request issues after it has resolved its post
\* fails in this step
RequestFault ==
    /\ faults' = faults + 1
    /\ boot' = boot
    /\ started' = started

\* C21: in RecordView, ToggleLike, CreateComment and DeleteComment every
\* store operation that fails (marker upsert, counter increment or
\* decrement, marker insert or delete, comment insert or delete, post
\* re-read) ends its request with a server-error (500) response.
C21_StoreFailureIsServerError ==
    [][RequestFault =>
         \E r \in Reqs :
             /\ InFlight(r)
             /\ pc'[r] = "done"
             /\ resp'[r].code = 500]_vars

\* C22: the unique (post, user) indexes of the view markers and of the like
\* markers exist before the server handles a RecordView or ToggleLike
\* request: startup does not go on to serve when index creation failed.
C22_IndexesBeforeServing ==
    (boot = "serving" \/ \E r \in Reqs : req[r].kind \in {"view", "like"})
        => (viewsUnique /\ likesUnique)

\* the four engagement counters of a post document
Counters == {"view_count", "unique_view_count", "like_count", "comment_count"}

\* the request in slot r takes this step
Acting(r) == pc'[r] # pc[r] \/ req'[r] # req[r]

\* the counters a handler adjusts
Adjusts(kind) ==
    CASE kind = "view" -> {"view_count", "unique_view_count"}
      [] kind = "like" -> {"like_count"}
      [] kind \in {"comment", "uncomment"} -> {"comment_count"}
      [] OTHER -> {}

\* the counters of post p that this step changes
Changed(p) == {f \in Counters : posts'[p][f] # posts[p][f]}

\* C23: a counter of a post changes only in a step of an engagement handler,
\* one counter of one post by +1 or -1 at a time; a post is created with all
\* four counters at 0; a step of UpdatePost changes no counter, so an update
\* between the steps of an engagement request loses none of its adjustments;
\* view_count and unique_view_count never decrease.
C23_CountersOnlyByAtomicSteps ==
    [][/\ \A p \in PostIds :
            /\ (posts[p] # NoPost /\ posts'[p] # NoPost) =>
                 /\ Cardinality(Changed(p)) <= 1
                 /\ \A f \in Changed(p) :
                      /\ posts'[p][f] - posts[p][f] \in {-1, 1}
                      /\ \A q \in PostIds \ {p} : posts'[q] = posts[q]
                      /\ \E r \in Reqs : Acting(r) /\ f \in Adjusts(req[r].kind)
                 /\ posts'[p].view_count >= posts[p].view_count
                 /\ posts'[p].unique_view_count >= posts[p].unique_view_count
            /\ (posts[p] = NoPost /\ posts'[p] # NoPost) =>
                 /\ \A f \in Counters : posts'[p][f] = 0
                 /\ \E r \in Reqs : Acting(r) /\ req[r].kind = "create"
       /\ (\E r \in Reqs : Acting(r) /\ req'[r].kind = "update") =>
            \A p \in PostIds : \A f \in Counters : posts'[p][f] = posts[p][f]]_vars

\* an update of post p1 has written its status while a view of the same
\* post, started before the update ended, has been counted
C23_UpdateBetweenViewSteps ==
    /\ ~alone
    /\ posts["p1"].status = "draft"
    /\ posts["p1"].view_count = 2
    /\ \E r, q \in Reqs :
         /\ req[r].kind = "update" /\ req[r].post = "p1" /\ pc[r] = "done"
         /\ resp[r].code = 200
         /\ req[q].kind = "view" /\ pc[q] = "done" /\ resp[q].code = 200

\* the goroutines activeRequests counts: past the write of activeRequests++
\* and before the write of activeRequests--
Counted ==
    {g \in Goroutines :
        \/ goroutines[g].pc = "serve"
        \/ goroutines[g].phase = "enter" /\ goroutines[g].pc = "unlock"
        \/ goroutines[g].phase = "inc"
        \/ goroutines[g].phase = "leave"}

\* C24: a goroutine reads or writes a metric only while it holds the metrics
\* mutex for writing; each counter equals the number of completed Inc* calls
\* on it and each requestsTotal entry the number of completed passes, however
\* the goroutines interleave; activeRequests is never negative and equals the
\* number of requests between the increment and the decrement of
\* MetricsMiddleware, so it is 0 when none is in flight.
C24_MetricsUnderMutex ==
    /\ \A g \in Goroutines :
         goroutines[g].pc \in {"load", "store", "unlock"} =>
            metrics.mu = [writer |-> g, readers |-> 0]
    /\ \A c \in CounterNames : metrics[c] = tally.calls[c]
    /\ \A k \in Keys : metrics.requestsTotal[k] = tally.served[k]
    /\ metrics.activeRequests >= 0
    /\ metrics.activeRequests = Cardinality(Counted)
    /\ (\A g \in Goroutines : goroutines[g].pc \in {"idle", "done"}) =>
          metrics.activeRequests = 0

\* every goroutine has served a request that called IncPostCreated, at least
\* one of them having waited for the mutex, and all have left
C24_ConcurrentIncrements ==
    /\ tally.waited
    /\ \A g \in Goroutines : goroutines[g].pc = "done"
    /\ metrics.postsCreated = MaxGoroutines
    /\ metrics.requestsTotal[201] = MaxGoroutines
    /\ metrics.activeRequests = 0

\* the users holding an address
UsersOf(email) == {u \in users : u.email = email}

\* C25: while no store operation has failed, no address belongs to two
\* users, also after two Register requests with the same address ran
\* together.
C25_OneUserPerEmail ==
    faults = 0 => \A email \in Emails : Cardinality(UsersOf(email)) <= 1

\* the number of like markers of post p
LikeMarkers(p) == SumOver(post_likes[p], Identities)

\* a request of this kind is between its first and its last step
InProgress(kind) == \E r \in Reqs : InFlight(r) /\ req[r].kind = kind

\* C26: while no ToggleLike is in progress and no store operation has failed,
\* like_count of every post equals the number of like markers of the post,
\* after any sequence and interleaving of ToggleLike requests of any users.
C26_LikeCountIsMarkerCount ==
    (faults = 0 /\ ~InProgress("like")) =>
        \A p \in PostIds : posts[p].like_count = LikeMarkers(p)

\* two users' likes of one post, in flight together, have both ended
C26_TwoLikesSettled ==
    /\ faults = 0
    /\ ~alone
    /\ ~InProgress("like")
    /\ \E p \in PostIds : posts[p].like_count = 2 /\ LikeMarkers(p) = 2

\* C27: while no CreateComment and no DeleteComment is in progress and no
\* store operation has failed, comment_count of every post equals the number
\* of comments of the post, also after several DeleteComment requests for
\* the same comment ran together.
C27_CommentCountIsCommentCount ==
    (faults = 0 /\ ~InProgress("comment") /\ ~InProgress("uncomment")) =>
        \A p \in PostIds : posts[p].comment_count = Cardinality(CommentsOf(p))

\* C28: while no RecordView is in progress and no store operation has
\* failed, unique_view_count of every post equals the number of view markers
\* of the post, after any interleaving of RecordView requests.
C28_UniqueViewCountIsMarkerCount ==
    (faults = 0 /\ ~InProgress("view")) =>
        \A p \in PostIds :
            posts[p].unique_view_count = SumOver(post_views[p], Identities)

\* two identified views of one post by different users, in flight together,
\* have both ended and a third view by one of them has been counted
C28_TwoViewersSettled ==
    /\ faults = 0
    /\ ~alone
    /\ ~InProgress("view")
    /\ \E p \in PostIds :
         /\ posts[p].unique_view_count = 2
         /\ posts[p].view_count = 3
         /\ Cardinality({u \in Users : post_views[p][u] = 1}) = 2

\* C29: while no store operation has failed, no two posts hold the same
\* slug, also after two CreatePost requests with the same title ran together.
C29_SlugsUnique ==
    faults = 0 =>
        \A p, q \in PostIds :
            (posts[p] # NoPost /\ posts[q] # NoPost /\ posts[p].slug = posts[q].slug)
                => p = q

\* C30: resizeCover applied to an image wider than maxWidth and at least 1
\* high returns an image at least 1 high.
C30_CoverHeightPositive ==
    [][(ResizeCoverStep /\ img.h >= 1 /\ img.w > trail'[Len(trail')].size) =>
         img'.h >= 1]_vars

====
